---------------------------- MODULE Spec2Model ----------------------------
(***************************************************************************)
(* The agent orchestration core of bolt-new-clone: the shared              *)
(* PriorityMessageQueue, the per-agent CircuitBreaker and the              *)
(* OrchestratorAgent's processMessage / drain loop / routeMessage (Spec,   *)
(* FairSpec, QueueSpec), and, each on its own, a CircuitBreaker            *)
(* (CircuitSpec, and SerialCircuitSpec for calls that never overlap), a    *)
(* HealthMetrics (MetricsSpec), the AgentRegistry                          *)
(* (RegistrySpec), a per-agent MessageQueue (MessageQueueSpec, and         *)
(* DrainSpec for a callback that always resolves) and a BaseAgent with     *)
(* its private MessageQueue (AgentSpec).                                   *)
(*                                                                         *)
(* Time.  The code reads Date.now() and only ever uses differences of two  *)
(* readings (now - lastActiveTime, now - lastStateChange, a.addedAt -      *)
(* b.addedAt) or arms timers for a duration.  The model therefore stores,  *)
(* for every time stamp, the time elapsed since it was taken, saturating   *)
(* at Horizon (the longest duration the code compares against), and for    *)
(* every timer the time left until it may fire.  Tick lets one unit of     *)
(* time pass.  Date.now() is taken to be non-decreasing.  The timeout of   *)
(* BaseAgent.processNextMessage races a processMessage of arbitrary        *)
(* duration: its timer is an armed flag that may fire at any moment.       *)
(*                                                                         *)
(* Atomicity.  JavaScript runs one continuation at a time: an action is    *)
(* the code between two suspension points (await / timer) of one call.     *)
(***************************************************************************)
EXTENDS Integers, Sequences, FiniteSets, TLC

\* ------------------------------------------------------------- bounds
\* Messages submitted to the orchestrator in one behaviour.
MaxMsgs == 2
\* Direct enqueue calls on a PriorityMessageQueue in one behaviour (QueueSpec).
MaxEnqueues == 3
\* execute() calls on a CircuitBreaker in one behaviour (CircuitSpec).
MaxCalls == 4
\* recordSuccess / recordError calls on a HealthMetrics between two resets
\* (MetricsSpec).
MaxRecords == 102

\* Number of enqueue calls made on a MessageQueue.
MaxQueued == 4
\* Number of enqueueMessage and of processNextMessage calls made on a
\* BaseAgent.
MaxAgentMessages == 3
MaxProcessCalls == 2

\* ------------------------------------------------------ configuration
\* OrchestratorConfig of the orchestrator test: maxRetries: 2.
maxRetries == 2
\* config.timeoutMs, in ticks.  As with the defaults (30000 against a
\* retryDelay of 1000) it exceeds the longest backoff of withRetry,
\* retryDelay * 2^(maxRetries - 1).
timeoutMs == 3
\* config.retryDelay, in ticks.
retryDelay == 1
\* config.maxQueueSize of the orchestrator.
maxQueueSize == 1

\* Longest duration any elapsed time is compared against.
Horizon == timeoutMs

VARIABLES
    queues,         \* PriorityMessageQueue.queues: tier -> sequence of QueueItem
    isProcessing,   \* PriorityMessageQueue._isProcessing
    returned,       \* what the last direct dequeue() call returned
    nextId,         \* id the next submitted message gets
    agentStates,    \* OrchestratorAgent.agents / agentStates: name -> AgentStateInfo
    validating,     \* processMessage calls suspended at line 128, in call order
    starting,       \* processMessage calls suspended at line 140, in call order
    callResult,     \* id -> how the processMessage call for that message settled
    loopPc,         \* id -> where the drain loop started by that call is suspended
    loopMsg,        \* id -> the message that loop has dequeued
    loopTimer,      \* id -> time left on that loop's withTimeout timer
    route,          \* id -> the withRetry(routeMessage) task of that message
    received,       \* messages handed to a target's processMessage, in order
    log,            \* console.warn / console.error lines written by the drain loop
    targetState,    \* name -> the registered agent's own BaseAgent.state
    breaker,        \* a CircuitBreaker used directly: state, failures, lastStateChange
    exec,           \* call -> where that execute() call on breaker stands
    sinceLastFailure, \* now - breaker.lastFailureTime; -1 while lastFailureTime is 0
    metrics,        \* a HealthMetrics: messageCount, errorCount, processingTimes
    registry,       \* the AgentRegistry: agents, lastHealthCheck, initializeCoreAgents
    regResult,      \* the last AgentRegistry.registerAgent call and its outcome
    handleState,    \* agent object -> what its getState() returns
    disposeResult,  \* the last AgentRegistry.dispose call and what it found
    mq,             \* a MessageQueue: queue, processing
    mqCall,         \* id -> where the enqueue call for that message stands
    processed,      \* messages handed to the MessageQueue's processCallback, in order
    agentState,     \* BaseAgent.state
    pnm,            \* call -> where that BaseAgent.processNextMessage call stands
    agentOp,        \* the BaseAgent operation that made the last step
    discarded       \* ids of the messages emergencyStop found in the private queue

vars == <<queues, isProcessing, returned, nextId, agentStates, validating, starting,
          callResult, loopPc, loopMsg, loopTimer, route, received, log, targetState,
          breaker, exec, sinceLastFailure, metrics, registry, regResult, handleState, disposeResult,
          mq, mqCall, processed, agentState, pnm, agentOp, discarded>>

\* The queue and the orchestrator.
coreVars == <<queues, isProcessing, returned, nextId, agentStates, validating,
              starting, callResult, loopPc, loopMsg, loopTimer, route, received, log,
              targetState>>

\* The components modelled on their own.
cbVars == <<breaker, exec, sinceLastFailure>>
hmVars == <<metrics>>
regVars == <<registry, regResult, handleState, disposeResult>>
mqVars == <<mq, mqCall, processed>>
baVars == <<agentState, pnm, agentOp, discarded>>
compVars == <<cbVars, hmVars, regVars, mqVars, baVars>>

orchVars == <<agentStates, validating, starting, callResult, loopPc, loopMsg,
              loopTimer, route, received, log>>

Ids == 1..MaxMsgs

Min(a, b) == IF a < b THEN a ELSE b
Max(a, b) == IF a > b THEN a ELSE b

\* ------------------------------------------------------------ messages
\* JavaScript's undefined, as a value comparable with a message.
Undefined == [undefined |-> TRUE]

\* BaseMessageSchema: id, type, targetAgent and an optional numeric priority.
\* The priority is passed as {} (absent) or {n}.
MkMessage(id, type, targetAgent, p) ==
    IF p = {}
    THEN [id |-> id, type |-> type, targetAgent |-> targetAgent]
    ELSE [id |-> id, type |-> type, targetAgent |-> targetAgent,
          priority |-> CHOOSE n \in p : TRUE]

HasPriority(message) == "priority" \in DOMAIN message

\* `message.priority && message.priority > n`: undefined and 0 are falsy.
PriorityAbove(message, n) ==
    HasPriority(message) /\ message.priority # 0 /\ message.priority > n

\* ------------------------------------------------ PriorityMessageQueue
Tiers == {"high", "normal", "low"}

EmptyQueues == [high |-> <<>>, normal |-> <<>>, low |-> <<>>]

\* A comparator a plausible slip would write: order by priority, highest first.
sortByPriority(a, b) ==
    (IF HasPriority(b.message) THEN b.message.priority ELSE 0)
    - (IF HasPriority(a.message) THEN a.message.priority ELSE 0)

\* (a, b) => a.addedAt - b.addedAt, with addedAt = now - age.
sortByTimestamp(a, b) == b.age - a.age

\* Array.prototype.sort is stable: x goes after every element that does not
\* compare greater than it.
RECURSIVE InsertStable(_, _)
InsertStable(sorted, x) ==
    IF sorted = <<>> THEN <<x>>
    ELSE IF sortByTimestamp(Head(sorted), x) <= 0
         THEN <<Head(sorted)>> \o InsertStable(Tail(sorted), x)
         ELSE <<x>> \o sorted

RECURSIVE StableSort(_)
StableSort(s) ==
    IF s = <<>> THEN <<>>
    ELSE InsertStable(StableSort(SubSeq(s, 1, Len(s) - 1)), s[Len(s)])

sortQueues(qs) == [t \in Tiers |-> StableSort(qs[t])]

\* The tier enqueue pushes the message to.
TierOf(message) ==
    IF PriorityAbove(message, 5) THEN "high"
    ELSE IF PriorityAbove(message, 2) THEN "normal"
    ELSE "low"

\* An enqueue that puts the new item at the front of its tier.
enqueueAtFront(qs, message) ==
    LET queueItem == [message |-> message, age |-> 0]
    IN  [qs EXCEPT ![TierOf(message)] = <<queueItem>> \o @]

\* enqueue(message): the queues afterwards.
enqueue(qs, message) ==
    LET queueItem == [message |-> message, age |-> 0]
    IN  sortQueues([qs EXCEPT ![TierOf(message)] = Append(@, queueItem)])

\* A dequeueItem that tries the normal tier before the high tier.
dequeueTierNormalFirst(qs) ==
    IF Len(qs.normal) > 0 THEN "normal"
    ELSE IF Len(qs.high) > 0 THEN "high"
    ELSE "low"

\* The tier dequeueItem shifts from.
dequeueTier(qs) ==
    IF Len(qs.high) > 0 THEN "high"
    ELSE IF Len(qs.normal) > 0 THEN "normal"
    ELSE "low"

\* dequeue(): the message returned (Undefined from an empty queue) and the
\* queues afterwards.
dequeue(qs) ==
    LET t == dequeueTier(qs)
    IN  IF Len(qs[t]) = 0
        THEN [message |-> Undefined, queues |-> qs]
        ELSE [message |-> Head(qs[t]).message,
              queues |-> [qs EXCEPT ![t] = Tail(@)]]

\* get size()
size(qs) == Len(qs.high) + Len(qs.normal) + Len(qs.low)

\* Every QueueItem held, whatever its tier.
Items(qs) == UNION {{qs[t][i] : i \in 1..Len(qs[t])} : t \in Tiers}

\* One unit of time passes for the queued items.
AgeQueues(qs) ==
    [t \in Tiers |-> [i \in 1..Len(qs[t]) |->
        [qs[t][i] EXCEPT !.age = Min(@ + 1, Horizon)]]]

\* ------------------------------------------------------ AgentErrorType
\* enum AgentErrorType: member name -> value.
AgentErrorType ==
    [VALIDATION |-> "validation", TIMEOUT |-> "timeout",
     QUEUE_FULL |-> "queue_full", INTERNAL |-> "internal"]

\* AgentErrorType.<member> as JavaScript evaluates it: a name the enum does
\* not declare reads as undefined.
ErrorTypeMember(member) ==
    IF member \in DOMAIN AgentErrorType THEN AgentErrorType[member] ELSE "undefined"

\* ------------------------------------------------------- CircuitBreaker
\* CircuitBreakerConfig the orchestrator derives in registerAgent.
failureThreshold == maxRetries
resetTimeout == timeoutMs
halfOpenTimeout == timeoutMs \div 2

\* new CircuitBreaker(config); sinceStateChange is now - lastStateChange.
NewCircuitBreaker == [state |-> "CLOSED", failures |-> 0, sinceStateChange |-> 0]

\* A transitionTo that forgets to clear the failure counter.
transitionToKeepFailures(cb, newState) ==
    [cb EXCEPT !.state = newState, !.sinceStateChange = 0]

transitionTo(cb, newState) ==
    [cb EXCEPT !.state = newState,
               !.sinceStateChange = 0,
               !.failures = IF newState = "CLOSED" THEN 0 ELSE @]

\* A checkState that lets a call through only after more than resetTimeout.
checkStateStrict(cb) ==
    CASE cb.state = "OPEN" ->
            IF cb.sinceStateChange > resetTimeout
            THEN [cb |-> transitionTo(cb, "HALF_OPEN"), threw |-> FALSE]
            ELSE [cb |-> cb, threw |-> TRUE]
      [] cb.state = "HALF_OPEN" ->
            IF cb.sinceStateChange >= halfOpenTimeout
            THEN [cb |-> transitionTo(cb, "CLOSED"), threw |-> FALSE]
            ELSE [cb |-> cb, threw |-> FALSE]
      [] OTHER -> [cb |-> cb, threw |-> FALSE]

\* A checkState whose rejection restarts the cooldown.
checkStateRestartsCooldown(cb) ==
    CASE cb.state = "OPEN" ->
            IF cb.sinceStateChange >= resetTimeout
            THEN [cb |-> transitionTo(cb, "HALF_OPEN"), threw |-> FALSE]
            ELSE [cb |-> [cb EXCEPT !.sinceStateChange = 0], threw |-> TRUE]
      [] cb.state = "HALF_OPEN" ->
            IF cb.sinceStateChange >= halfOpenTimeout
            THEN [cb |-> transitionTo(cb, "CLOSED"), threw |-> FALSE]
            ELSE [cb |-> cb, threw |-> FALSE]
      [] OTHER -> [cb |-> cb, threw |-> FALSE]

\* checkState(): the breaker afterwards, and whether it threw "Circuit
\* breaker is OPEN".
checkState(cb) ==
    CASE cb.state = "OPEN" ->
            IF cb.sinceStateChange >= resetTimeout
            THEN [cb |-> transitionTo(cb, "HALF_OPEN"), threw |-> FALSE]
            ELSE [cb |-> cb, threw |-> TRUE]
      [] cb.state = "HALF_OPEN" ->
            IF cb.sinceStateChange >= halfOpenTimeout
            THEN [cb |-> transitionTo(cb, "CLOSED"), threw |-> FALSE]
            ELSE [cb |-> cb, threw |-> FALSE]
      [] OTHER -> [cb |-> cb, threw |-> FALSE]

\* An onSuccess that clears the counter and leaves the state alone.
onSuccessKeepsState(cb) == [cb EXCEPT !.failures = 0]

onSuccess(cb) ==
    LET c == IF cb.state = "HALF_OPEN" THEN transitionTo(cb, "CLOSED") ELSE cb
    IN  [c EXCEPT !.failures = 0]

\* An onFailure that opens the circuit one failure late.
onFailureStrict(cb) ==
    LET c == [cb EXCEPT !.failures = @ + 1]
    IN  IF c.failures > failureThreshold THEN transitionTo(c, "OPEN") ELSE c

onFailure(cb) ==
    LET c == [cb EXCEPT !.failures = @ + 1]
    IN  IF c.failures >= failureThreshold THEN transitionTo(c, "OPEN") ELSE c

\* reset()
reset(cb) == [cb EXCEPT !.state = "CLOSED", !.failures = 0, !.sinceStateChange = 0]

\* details.remainingTimeout of the error checkState throws.
remainingTimeout(cb) == resetTimeout - cb.sinceStateChange

\* The execute() calls made on the breaker, and one not made yet; movedTo
\* is the state the call's checkState moved the breaker to, if it did.
Calls == 1..MaxCalls
NoExec == [pc |-> "none", errorType |-> "", remainingTimeout |-> 0, movedTo |-> ""]

\* ---------------------------------------------------- OrchestratorAgent
\* The agents of the orchestrator test: a TestReceiverAgent, whose
\* processMessage never throws, and a failing agent, whose may.
Agents == {"receiver", "failing"}
AlwaysSucceeds == {"receiver"}

\* The messageTypes every agent is registered with in the test.
RegisteredTypes == {"TEST_TYPE"}
MessageTypes == {"TEST_TYPE", "UNKNOWN_TYPE"}

\* Priorities of the messages submitted to the orchestrator: absent or 6.
OrchPriorities == {{}, {6}}

\* registerAgent(agent, messageTypes): the agents / agentStates maps
\* afterwards.  messageTypes is not read.
registerAgent(states, agentName, messageTypes) ==
    [a \in DOMAIN states \cup {agentName} |->
        IF a = agentName
        THEN [state |-> "IDLE", inactiveFor |-> 0, errorCount |-> 0,
              circuitBreaker |-> NewCircuitBreaker]
        ELSE states[a]]

\* isAgentHealthy(agentName); inactiveFor is currentTime - lastActiveTime.
isAgentHealthy(states, agentName) ==
    IF agentName \notin DOMAIN states THEN FALSE
    ELSE LET stateInfo == states[agentName]
         IN  /\ stateInfo.circuitBreaker.state # "OPEN"
             /\ stateInfo.inactiveFor < timeoutMs
             /\ stateInfo.state # "ERROR"

\* validateOrchestratorMessage: OrchestratorMessageSchema requires id, type
\* and targetAgent.
schemaValid(message) == {"id", "type", "targetAgent"} \subseteq DOMAIN message

\* A processMessage call that starts a drain loop whatever the flag says.
drainMayStartAlways(processing) == TRUE

\* `if (!this.messageQueue.isProcessing)` before processQueuedMessages and
\* `if (this.messageQueue.isProcessing) return` on entering it.
drainMayStart(processing) == ~processing

\* A requeue test that ignores the error count.
mayRecoverAlways(stateInfo) == TRUE

\* `stateInfo.errorCount < (this.config.maxRetries ?? 3)`
mayRecover(stateInfo) == stateInfo.errorCount < maxRetries

\* A drain loop without the try / catch around the routing.
routingErrorEscapes(failed) == failed

\* The catch around withTimeout(withRetry(...)): the failure is logged and
\* never leaves the loop.
routingErrorThrown(failed) == FALSE

\* The head of the while loop: dequeue the next message, or leave through
\* `finally` when the queue is empty.
loopTop(qs) ==
    IF size(qs) > 0
    THEN [pc |-> "dequeued", message |-> dequeue(qs).message,
          queues |-> dequeue(qs).queues, isProcessing |-> TRUE]
    ELSE [pc |-> "none", message |-> Undefined,
          queues |-> qs, isProcessing |-> FALSE]

\* A withRetry whose loop runs one attempt too many.
retryOrFailOneMore(r) ==
    IF r.attempt = maxRetries + 1
    THEN [r EXCEPT !.pc = "failed"]
    ELSE [r EXCEPT !.pc = "backoff", !.delay = retryDelay * (2 ^ r.attempt)]

\* The catch of withRetry: give up after the attempt numbered maxRetries,
\* otherwise wait baseDelayMs * 2^attempt.
retryOrFail(r) ==
    IF r.attempt = maxRetries
    THEN [r EXCEPT !.pc = "failed"]
    ELSE [r EXCEPT !.pc = "backoff", !.delay = retryDelay * (2 ^ r.attempt)]

\* The catch of routeMessage.
routeFailed(stateInfo) ==
    [stateInfo EXCEPT !.state = "ERROR", !.errorCount = @ + 1]

\* No routing has been started for the message.
NoRoute == [pc |-> "none", attempt |-> 0, delay |-> 0, message |-> Undefined]

\* withRetry(routeMessage) has resolved, or rejected after its last attempt.
RouteSettled(id) == route[id].pc \in {"resolved", "failed"}

\* A continuation is queued as a microtask; timers and the clock wait for it.
MicrotaskPending ==
    \/ validating # <<>>
    \/ starting # <<>>
    \/ \E id \in Ids :
          \/ loopPc[id] \in {"dequeued", "requeued"}
          \/ loopPc[id] = "routing" /\ RouteSettled(loopMsg[id].id)
          \/ route[id].pc \in {"checked", "rejected"}

\* How a processMessage call stands: not made, suspended, resolved or rejected.
NotCalled == [status |-> "none", errorType |-> ""]
Pending == [status |-> "pending", errorType |-> ""]
Enqueued == [status |-> "enqueued", errorType |-> ""]
Resolved == [status |-> "resolved", errorType |-> ""]
Rejected(errorType) == [status |-> "rejected", errorType |-> errorType]

\* -------------------------------------------------------- HealthMetrics
\* HealthMetrics.maxSamples
maxSamples == 100

\* new HealthMetrics()
NewHealthMetrics == [messageCount |-> 0, errorCount |-> 0, processingTimes |-> <<>>]

\* An addProcessingTime that evicts the newest sample instead of the oldest.
addProcessingTimeDropNewest(times, time) ==
    LET pushed == Append(times, time)
    IN  IF Len(pushed) > maxSamples THEN SubSeq(pushed, 1, maxSamples) ELSE pushed

\* addProcessingTime(time): push, then shift when over maxSamples.
addProcessingTime(times, time) ==
    LET pushed == Append(times, time)
    IN  IF Len(pushed) > maxSamples THEN Tail(pushed) ELSE pushed

recordSuccess(m, processingTime) ==
    [m EXCEPT !.messageCount = @ + 1,
              !.processingTimes = addProcessingTime(@, processingTime)]

\* A recordError that does not count the message.
recordErrorUncounted(m, processingTime) ==
    [m EXCEPT !.errorCount = @ + 1,
              !.processingTimes = addProcessingTime(@, processingTime)]

recordError(m, processingTime) ==
    [m EXCEPT !.messageCount = @ + 1,
              !.errorCount = @ + 1,
              !.processingTimes = addProcessingTime(@, processingTime)]

\* A quotient num / den, kept exact.
Ratio(num, den) == [num |-> num, den |-> den]

RECURSIVE SumSeq(_)
\* processingTimes.reduce((a, b) => a + b, 0)
SumSeq(seq) == IF seq = <<>> THEN 0 ELSE Head(seq) + SumSeq(Tail(seq))

\* getMetrics(): the counters, successRate and avgProcessingTime.
getMetrics(m) ==
    [messageCount |-> m.messageCount,
     errorCount |-> m.errorCount,
     successRate |->
        IF m.messageCount > 0
        THEN Ratio((m.messageCount - m.errorCount) * 100, m.messageCount)
        ELSE Ratio(100, 1),
     avgProcessingTime |->
        IF Len(m.processingTimes) > 0
        THEN Ratio(SumSeq(m.processingTimes), Len(m.processingTimes))
        ELSE Ratio(0, 1)]

\* -------------------------------------------------------- AgentRegistry
\* RegistryConfig.maxAgents of the registry test.
maxAgents == 3

\* The names initializeCoreAgents registers, in its order, and the names and
\* agent objects of direct registerAgent calls; NullAgent is a missing handle.
CoreNames == <<"orchestrator", "compatibility", "eslint", "deployment">>
TestNames == {"test1", "test2"}
TestAgents == {"agent1"}
NullAgent == "undefined"
Handles == TestAgents \cup {CoreNames[i] : i \in 1..Len(CoreNames)}

\* A JavaScript Map: its entries in insertion order.
MapHas(map, key) == \E i \in 1..Len(map) : map[i].key = key
MapGet(map, key) == map[CHOOSE i \in 1..Len(map) : map[i].key = key].value
MapSet(map, key, value) ==
    IF MapHas(map, key)
    THEN [i \in 1..Len(map) |->
            IF map[i].key = key THEN [key |-> key, value |-> value] ELSE map[i]]
    ELSE Append(map, [key |-> key, value |-> value])
MapKeys(map) == {map[i].key : i \in 1..Len(map)}

\* new AgentRegistry(config): the constructor arms the health-check timer.
\* initPc is where initializeCoreAgents stands (0: not running; 1..4: about
\* to register CoreNames[initPc]; 5: about to register the workers with the
\* orchestrator) and initResult how its last call settled.
NewRegistry ==
    [agents |-> <<>>, lastHealthCheck |-> <<>>, healthCheckTimer |-> TRUE,
     orchestrator |-> FALSE, orchestratorAgents |-> {},
     initPc |-> 0, initResult |-> "none"]

\* No registerAgent call has been made on the registry.
NoRegistration == [seq |-> 0, name |-> "", agent |-> "", outcome |-> ""]

\* A capacity test that lets one agent too many in.
registryFullStrict(reg) == Len(reg.agents) > maxAgents

\* `this.agents.size >= this.maxAgents`
registryFull(reg) == Len(reg.agents) >= maxAgents

\* The message of the Error registerAgent(name, agent) throws, "" if none.
registrationError(reg, name, agent) ==
    IF agent = NullAgent THEN "Invalid agent"
    ELSE IF MapHas(reg.agents, name) THEN "already exists"
    ELSE IF registryFull(reg) THEN "Maximum number of agents reached"
    ELSE ""

\* AgentHealth of an agent (lastActive is left out).
AgentHealth(name, state) == [name |-> name, state |-> state]

\* AgentRegistry.registerAgent(name, agent): the registry afterwards.
registryRegisterAgent(reg, name, agent, states) ==
    IF registrationError(reg, name, agent) # ""
    THEN reg
    ELSE [reg EXCEPT
            !.agents = MapSet(@, name, agent),
            !.lastHealthCheck = MapSet(@, name, AgentHealth(name, states[agent]))]

\* The registerAgent call as regResult records it.
Registration(reg, old, name, agent) ==
    [seq |-> 1 - old.seq, name |-> name, agent |-> agent,
     outcome |-> IF registrationError(reg, name, agent) = ""
                 THEN "ok" ELSE registrationError(reg, name, agent)]

RECURSIVE snapshotAll(_, _, _)
\* The health-check callback: agents.forEach(lastHealthCheck.set(...)).
snapshotAll(agents, snapshots, states) ==
    IF agents = <<>> THEN snapshots
    ELSE snapshotAll(Tail(agents),
                     MapSet(snapshots, Head(agents).key,
                            AgentHealth(Head(agents).key, states[Head(agents).value])),
                     states)

\* getAgentHealth(): `Array.from(this.lastHealthCheck.values())`.
getAgentHealth(reg) == [i \in 1..Len(reg.lastHealthCheck) |-> reg.lastHealthCheck[i].value]

\* A dispose that leaves the interval timer armed.
disposeKeepTimer(reg) ==
    [reg EXCEPT !.agents = <<>>, !.lastHealthCheck = <<>>, !.orchestrator = FALSE,
                !.orchestratorAgents = {}]

\* dispose()
dispose(reg) ==
    [reg EXCEPT !.healthCheckTimer = FALSE, !.agents = <<>>,
                !.lastHealthCheck = <<>>, !.orchestrator = FALSE,
                !.orchestratorAgents = {}]

\* --------------------------------------------------------- MessageQueue
\* The capacity of the size-limit test's queue, and the constructor's default.
maxSize == 2
defaultMaxSize == 100

MqIds == 1..MaxQueued

\* new MessageQueue(processCallback, maxSize)
NewMessageQueue == [queue |-> <<>>, processing |-> FALSE]

\* `message.priority ?? 0`
priorityOrZero(message) == IF HasPriority(message) THEN message.priority ELSE 0

\* The insertion of enqueue: before the first message of lower priority,
\* else after the last one of the same priority, else at the end.  findIndex
\* and findLastIndex are 1-based here, with 0 for "not found", and
\* splice(array, index, item) makes item the index-th element.
insertByPriority(queue, message) ==
    LET priority == priorityOrZero(message)
        Lower(m) == priorityOrZero(m) < priority
        Same(m) == priorityOrZero(m) = priority
        findIndex(array, Test(_)) ==
            IF \E i \in 1..Len(array) : Test(array[i])
            THEN CHOOSE i \in 1..Len(array) :
                    Test(array[i]) /\ \A j \in 1..(i - 1) : ~Test(array[j])
            ELSE 0
        findLastIndex(array, Test(_)) ==
            IF \E i \in 1..Len(array) : Test(array[i])
            THEN CHOOSE i \in 1..Len(array) :
                    Test(array[i]) /\ \A j \in (i + 1)..Len(array) : ~Test(array[j])
            ELSE 0
        splice(array, index, item) ==
            SubSeq(array, 1, index - 1) \o <<item>> \o SubSeq(array, index, Len(array))
        insertIndex == findIndex(queue, Lower)
        lastSamePriorityIndex == findLastIndex(queue, Same)
    IN  IF insertIndex = 0
        THEN IF lastSamePriorityIndex = 0
             THEN Append(queue, message)
             ELSE splice(queue, lastSamePriorityIndex + 1, message)
        ELSE splice(queue, insertIndex, message)

\* A processNextMessage that leaves the flag set when it finds the queue empty.
processNextMessageKeepFlag(q) ==
    IF q.queue = <<>>
    THEN [mq |-> q, message |-> Undefined]
    ELSE [mq |-> [queue |-> Tail(q.queue), processing |-> TRUE],
          message |-> Head(q.queue)]

\* processNextMessage() up to its first suspension, `await this.dequeue()`:
\* the queue afterwards and the message shifted off it, if any.
processNextMessage(q) ==
    IF q.queue = <<>>
    THEN [mq |-> [q EXCEPT !.processing = FALSE], message |-> Undefined]
    ELSE [mq |-> [queue |-> Tail(q.queue), processing |-> TRUE],
          message |-> Head(q.queue)]

\* An enqueue call: pc is "none" (not made), "validating" (the enclosing
\* BaseAgent.enqueueMessage awaits validateMessage), "dequeue" (its drain
\* awaits dequeue), "callback" (its drain awaits the callback), "resolved",
\* "QUEUE_FULL" or "failed" (rejected with the callback's error); message is
\* the message it was given and current the one its drain holds.
NoMqCall == [pc |-> "none", message |-> Undefined, current |-> Undefined]
MqCall(pc, message, current) == [pc |-> pc, message |-> message, current |-> current]

\* enqueue(message) on a queue of the given capacity, up to its first
\* suspension: the queue afterwards and where the call stands.
mqEnqueue(q, message, capacity) ==
    IF Len(q.queue) >= capacity
    THEN [mq |-> q, call |-> MqCall("QUEUE_FULL", message, Undefined)]
    ELSE LET inserted == [q EXCEPT !.queue = insertByPriority(@, message)]
             next == processNextMessage(inserted)
         IN  IF inserted.processing
             THEN [mq |-> inserted, call |-> MqCall("resolved", message, Undefined)]
             ELSE [mq |-> next.mq, call |-> MqCall("dequeue", message, next.message)]

\* A drain resumes after a callback that resolved: processNextMessage again.
mqContinue(q, call) ==
    LET next == processNextMessage(q)
    IN  IF next.message = Undefined
        THEN [mq |-> next.mq, call |-> MqCall("resolved", call.message, Undefined)]
        ELSE [mq |-> next.mq, call |-> MqCall("dequeue", call.message, next.message)]

\* A drain resumes in its catch block after a callback that failed.
mqCallbackFailed(q, call) ==
    [mq |-> [q EXCEPT !.processing = FALSE],
     call |-> MqCall("failed", call.message, Undefined)]

\* MessageQueue.dequeue() called from outside: `this.queue.shift()`.
mqDequeue(q) ==
    IF q.queue = <<>>
    THEN [mq |-> q, message |-> Undefined]
    ELSE [mq |-> [q EXCEPT !.queue = Tail(@)], message |-> Head(q.queue)]

\* A clear that resets the flag and leaves the queued messages.
mqClearKeepQueue(q) == [queue |-> q.queue, processing |-> FALSE]

\* clear()
mqClear(q) == [queue |-> <<>>, processing |-> FALSE]

\* setProcessing(state)
setProcessing(q, state) == [q EXCEPT !.processing = state]

\* ------------------------------------------------------------ BaseAgent
ProcessCalls == 1..MaxProcessCalls

\* A processNextMessage call: pc is "none" (not made), "dequeue" (awaits
\* dequeue), "working" (awaits the race of processMessage and the timeout),
\* "settled" (the race has settled), "resolved" or "rejected"; timer tells
\* whether its timeout timer is armed, inFlight whether its processMessage
\* call has yet to settle, and errorType is the type of the AgentError it
\* rejected with.
NoProcessCall ==
    [pc |-> "none", message |-> Undefined, timer |-> FALSE, inFlight |-> FALSE,
     outcome |-> "", errorType |-> ""]

\* A settlement of processMessage that runs the finally callback even when
\* the race was already settled by the timeout.
processMessageSettlesAlwaysFinally(q, call, outcome) ==
    [mq |-> setProcessing(q, FALSE),
     call |-> IF call.pc = "working"
              THEN [call EXCEPT !.pc = "settled", !.outcome = outcome,
                                !.inFlight = FALSE]
              ELSE [call EXCEPT !.inFlight = FALSE]]

\* processMessage(message) settles.  While the race of lines 101-106 is
\* open the settlement settles the race and the finally callback clears
\* the queue's processing flag; after the timeout has settled the race
\* nothing is attached to the call any more.
processMessageSettles(q, call, outcome) ==
    IF call.pc = "working"
    THEN [mq |-> setProcessing(q, FALSE),
          call |-> [call EXCEPT !.pc = "settled", !.outcome = outcome,
                                !.inFlight = FALSE]]
    ELSE [mq |-> q, call |-> [call EXCEPT !.inFlight = FALSE]]

\* The type of the AgentError processNextMessage rejects with: the timeout
\* rejects the race with an AgentError of type TIMEOUT, which line 113
\* rethrows as it is; any other error is wrapped as INTERNAL.
rejectionType(outcome) ==
    IF outcome = "TIMEOUT" THEN ErrorTypeMember("TIMEOUT") ELSE ErrorTypeMember("INTERNAL")

\* A completion that takes a timeout for a success.
stateAfterRaceTimeoutIdle(outcome) == IF outcome = "rejected" THEN "ERROR" ELSE "IDLE"

\* The state processNextMessage sets once the race of processMessage and
\* the timeout has settled: IDLE after line 108, ERROR in the catch blocks.
stateAfterRace(outcome) == IF outcome = "resolved" THEN "IDLE" ELSE "ERROR"

\* No dispose call has been made on the registry.
NoDisposal == [seq |-> 0, timerFound |-> FALSE]

\* The dispose call as disposeResult records it: timerFound is the outcome
\* of its test `if (this.healthCheckTimer)`.
Disposal(reg, old) == [seq |-> 1 - old.seq, timerFound |-> reg.healthCheckTimer]

\* ---------------------------------------------------------------- Init
Init ==
    /\ queues = EmptyQueues
    /\ isProcessing = FALSE
    /\ returned = Undefined
    /\ nextId = 1
    /\ agentStates = <<>>
    /\ validating = <<>>
    /\ starting = <<>>
    /\ callResult = [id \in Ids |-> NotCalled]
    /\ loopPc = [id \in Ids |-> "none"]
    /\ loopMsg = [id \in Ids |-> Undefined]
    /\ loopTimer = [id \in Ids |-> 0]
    /\ route = [id \in Ids |-> NoRoute]
    /\ received = <<>>
    /\ log = {}
    /\ targetState = [a \in Agents |-> "IDLE"]
    /\ breaker = NewCircuitBreaker
    /\ exec = [c \in Calls |-> NoExec]
    /\ sinceLastFailure = -1
    /\ metrics = NewHealthMetrics
    /\ registry = NewRegistry
    /\ regResult = NoRegistration
    /\ handleState = [h \in Handles |-> "IDLE"]
    /\ disposeResult = NoDisposal
    /\ mq = NewMessageQueue
    /\ mqCall = [id \in MqIds |-> NoMqCall]
    /\ processed = <<>>
    /\ agentState = "IDLE"
    /\ pnm = [c \in ProcessCalls |-> NoProcessCall]
    /\ agentOp = "constructor"
    /\ discarded = {}

\* --------------------------------------------- OrchestratorAgent steps
\* The messages a caller may pass as message number id: every schema-valid
\* choice of type, target and priority, and one that fails the schema.
Inputs(id) ==
    {MkMessage(id, type, a, p) : type \in MessageTypes, a \in Agents, p \in OrchPriorities}
        \cup {[id |-> id]}

\* orchestrator.registerAgent(agent, ["TEST_TYPE"]) for a name not yet
\* registered (a second registration throws and changes nothing).
RegisterAgent(a) ==
    /\ a \notin DOMAIN agentStates
    /\ agentStates' = registerAgent(agentStates, a, RegisteredTypes)
    /\ UNCHANGED <<queues, isProcessing, returned, nextId, validating, starting,
                   callResult, loopPc, loopMsg, loopTimer, route, received, log>>
    /\ UNCHANGED <<compVars, targetState>>

\* processMessage(message) is called: it runs to `await validate...`.
ProcessMessage ==
    /\ nextId <= MaxMsgs
    /\ \E message \in Inputs(nextId) : validating' = Append(validating, message)
    /\ callResult' = [callResult EXCEPT ![nextId] = Pending]
    /\ nextId' = nextId + 1
    /\ UNCHANGED <<queues, isProcessing, returned, agentStates, starting,
                   loopPc, loopMsg, loopTimer, route, received, log>>
    /\ UNCHANGED <<compVars, targetState>>

\* processMessage resumes after the validation: the schema error, the size
\* check, and the enqueue up to `await this.messageQueue.enqueue(...)`.
Validated ==
    /\ validating # <<>>
    /\ LET message == Head(validating)
           id == message.id
       IN  /\ validating' = Tail(validating)
           /\ IF ~schemaValid(message)
              THEN /\ callResult' = [callResult EXCEPT
                                        ![id] = Rejected(ErrorTypeMember("VALIDATION"))]
                   /\ UNCHANGED <<queues, starting>>
              ELSE IF size(queues) >= maxQueueSize
              THEN /\ callResult' = [callResult EXCEPT
                                        ![id] = Rejected(ErrorTypeMember("OPERATION"))]
                   /\ UNCHANGED <<queues, starting>>
              ELSE /\ queues' = enqueue(queues, message)
                   /\ starting' = Append(starting, id)
                   /\ callResult' = [callResult EXCEPT ![id] = Enqueued]
    /\ UNCHANGED <<isProcessing, returned, nextId, agentStates, loopPc, loopMsg,
                   loopTimer, route, received, log>>
    /\ UNCHANGED <<compVars, targetState>>

\* The drain loop of call id goes to the head of its while loop.
ContinueLoop(id) ==
    LET t == loopTop(queues)
    IN  /\ queues' = t.queues
        /\ isProcessing' = t.isProcessing
        /\ loopPc' = [loopPc EXCEPT ![id] = t.pc]
        /\ loopMsg' = [loopMsg EXCEPT ![id] = t.message]

\* The drain loop of call id ends with the error thrown out of it.
LeaveLoopThrowing(id) ==
    /\ isProcessing' = FALSE
    /\ loopPc' = [loopPc EXCEPT ![id] = "threw"]
    /\ loopMsg' = [loopMsg EXCEPT ![id] = Undefined]
    /\ UNCHANGED queues

\* processMessage resumes after the enqueue: it starts the drain loop unless
\* one is running (`void this.processQueuedMessages()` runs to the loop's
\* first await) and resolves.
Started ==
    /\ starting # <<>>
    /\ LET id == Head(starting)
       IN  /\ starting' = Tail(starting)
           /\ callResult' = [callResult EXCEPT ![id] = Resolved]
           /\ IF drainMayStart(isProcessing)
              THEN ContinueLoop(id)
              ELSE UNCHANGED <<queues, isProcessing, loopPc, loopMsg>>
    /\ UNCHANGED <<returned, nextId, agentStates, validating, loopTimer, route,
                   received, log>>
    /\ UNCHANGED <<compVars, targetState>>

\* The synchronous start of routeMessage: circuitBreaker.execute runs
\* checkState and suspends on it.
BeginAttempt(message, attempt) ==
    LET a == message.targetAgent
        r == checkState(agentStates[a].circuitBreaker)
    IN  /\ agentStates' = [agentStates EXCEPT ![a].circuitBreaker = r.cb]
        /\ route' = [route EXCEPT ![message.id] =
                        [pc |-> IF r.threw THEN "rejected" ELSE "checked",
                         attempt |-> attempt, delay |-> 0, message |-> message]]

\* The drain loop of call id resumes with the message it dequeued: skip an
\* unknown target, requeue or drop for an unhealthy one, route otherwise.
LoopDequeued(id) ==
    /\ loopPc[id] = "dequeued"
    /\ LET message == loopMsg[id]
           targetAgent == message.targetAgent
       IN  IF targetAgent \notin DOMAIN agentStates
           THEN /\ log' = log \cup {[level |-> "warn", text |-> "not found, skipping",
                                     id |-> message.id]}
                /\ ContinueLoop(id)
                /\ UNCHANGED <<agentStates, route, loopTimer>>
           ELSE IF ~isAgentHealthy(agentStates, targetAgent)
           THEN IF mayRecover(agentStates[targetAgent])
                THEN /\ queues' = enqueue(queues, message)
                     /\ loopPc' = [loopPc EXCEPT ![id] = "requeued"]
                     /\ loopMsg' = [loopMsg EXCEPT ![id] = Undefined]
                     /\ UNCHANGED <<isProcessing, agentStates, route, loopTimer, log>>
                ELSE /\ log' = log \cup {[level |-> "error",
                                          text |-> "unhealthy, dropping message",
                                          id |-> message.id]}
                     /\ ContinueLoop(id)
                     /\ UNCHANGED <<agentStates, route, loopTimer>>
           ELSE /\ BeginAttempt(message, 0)
                /\ loopPc' = [loopPc EXCEPT ![id] = "routing"]
                /\ loopTimer' = [loopTimer EXCEPT ![id] = timeoutMs]
                /\ UNCHANGED <<queues, isProcessing, loopMsg, log>>
    /\ UNCHANGED <<returned, nextId, validating, starting, callResult, received>>
    /\ UNCHANGED <<compVars, targetState>>

\* The drain loop resumes after `await this.messageQueue.enqueue(message)`.
LoopRequeued(id) ==
    /\ loopPc[id] = "requeued"
    /\ ContinueLoop(id)
    /\ UNCHANGED <<returned, nextId, agentStates, validating, starting, callResult,
                   loopTimer, route, received, log>>
    /\ UNCHANGED <<compVars, targetState>>

\* The end of one routing for the drain loop: a failure is logged in the
\* catch block and the loop goes on.
AfterRouting(id, failed) ==
    /\ log' = IF failed
              THEN log \cup {[level |-> "error", text |-> "Failed to process message",
                              id |-> loopMsg[id].id]}
              ELSE log
    /\ loopTimer' = [loopTimer EXCEPT ![id] = 0]
    /\ IF routingErrorThrown(failed) THEN LeaveLoopThrowing(id) ELSE ContinueLoop(id)

\* withTimeout settles with the routing's own outcome.
LoopRouteSettled(id) ==
    /\ loopPc[id] = "routing"
    /\ RouteSettled(loopMsg[id].id)
    /\ AfterRouting(id, route[loopMsg[id].id].pc = "failed")
    /\ UNCHANGED <<returned, nextId, agentStates, validating, starting, callResult,
                   route, received>>
    /\ UNCHANGED <<compVars, targetState>>

\* withTimeout's timer fires first: the routing is declared failed and goes
\* on in the background.
LoopTimeout(id) ==
    /\ loopPc[id] = "routing"
    /\ loopTimer[id] = 0
    /\ ~RouteSettled(loopMsg[id].id)
    /\ ~MicrotaskPending
    /\ AfterRouting(id, TRUE)
    /\ UNCHANGED <<returned, nextId, agentStates, validating, starting, callResult,
                   route, received>>
    /\ UNCHANGED <<compVars, targetState>>

\* execute resumes after checkState: the operation marks the target WORKING
\* and calls its processMessage.
RouteChecked(id) ==
    /\ route[id].pc = "checked"
    /\ LET message == route[id].message
           a == message.targetAgent
       IN  /\ agentStates' = [agentStates EXCEPT ![a].state = "WORKING",
                                                 ![a].inactiveFor = 0]
           /\ received' = Append(received, message)
           /\ route' = [route EXCEPT ![id].pc = "calling"]
    /\ UNCHANGED <<queues, isProcessing, returned, nextId, validating, starting,
                   callResult, loopPc, loopMsg, loopTimer, log>>
    /\ UNCHANGED <<compVars, targetState>>

\* checkState threw (the circuit is OPEN): routeMessage's catch, then
\* withRetry's.
RouteRejected(id) ==
    /\ route[id].pc = "rejected"
    /\ LET a == route[id].message.targetAgent
       IN  agentStates' = [agentStates EXCEPT ![a] = routeFailed(@)]
    /\ route' = [route EXCEPT ![id] = retryOrFail(@)]
    /\ UNCHANGED <<queues, isProcessing, returned, nextId, validating, starting,
                   callResult, loopPc, loopMsg, loopTimer, received, log>>
    /\ UNCHANGED <<compVars, targetState>>

\* The target's processMessage resolves.
TargetResolves(id) ==
    /\ route[id].pc = "calling"
    /\ LET a == route[id].message.targetAgent
       IN  agentStates' = [agentStates EXCEPT
               ![a] = [@ EXCEPT !.state = "IDLE", !.errorCount = 0,
                                !.circuitBreaker = onSuccess(@)]]
    /\ route' = [route EXCEPT ![id].pc = "resolved"]
    /\ UNCHANGED <<queues, isProcessing, returned, nextId, validating, starting,
                   callResult, loopPc, loopMsg, loopTimer, received, log>>
    /\ UNCHANGED <<compVars, targetState>>

\* The target's processMessage rejects: onFailure, routeMessage's catch,
\* withRetry's catch.
TargetRejects(id) ==
    /\ route[id].pc = "calling"
    /\ route[id].message.targetAgent \notin AlwaysSucceeds
    /\ LET a == route[id].message.targetAgent
       IN  agentStates' = [agentStates EXCEPT
               ![a] = routeFailed([@ EXCEPT !.circuitBreaker = onFailure(@)])]
    /\ route' = [route EXCEPT ![id] = retryOrFail(@)]
    /\ UNCHANGED <<queues, isProcessing, returned, nextId, validating, starting,
                   callResult, loopPc, loopMsg, loopTimer, received, log>>
    /\ UNCHANGED <<compVars, targetState>>

\* The backoff timer of withRetry fires: the next attempt starts.
BackoffDone(id) ==
    /\ route[id].pc = "backoff"
    /\ route[id].delay = 0
    /\ ~MicrotaskPending
    /\ BeginAttempt(route[id].message, route[id].attempt + 1)
    /\ UNCHANGED <<queues, isProcessing, returned, nextId, validating, starting,
                   callResult, loopPc, loopMsg, loopTimer, received, log>>
    /\ UNCHANGED <<compVars, targetState>>

\* One unit of time passes, once no continuation is waiting to run.
Tick ==
    /\ ~MicrotaskPending
    /\ queues' = AgeQueues(queues)
    /\ agentStates' = [a \in DOMAIN agentStates |->
          [agentStates[a] EXCEPT
              !.inactiveFor = Min(@ + 1, Horizon),
              !.circuitBreaker.sinceStateChange = Min(@ + 1, Horizon)]]
    /\ loopTimer' = [id \in Ids |-> Max(loopTimer[id] - 1, 0)]
    /\ route' = [id \in Ids |-> [route[id] EXCEPT !.delay = Max(@ - 1, 0)]]
    /\ UNCHANGED <<isProcessing, returned, nextId, validating, starting, callResult,
                   loopPc, loopMsg, received, log>>
    /\ UNCHANGED <<compVars, targetState>>

Next ==
    \/ \E a \in Agents : RegisterAgent(a)
    \/ ProcessMessage
    \/ Validated
    \/ Started
    \/ \E id \in Ids : LoopDequeued(id)
    \/ \E id \in Ids : LoopRequeued(id)
    \/ \E id \in Ids : LoopRouteSettled(id)
    \/ \E id \in Ids : LoopTimeout(id)
    \/ \E id \in Ids : RouteChecked(id)
    \/ \E id \in Ids : RouteRejected(id)
    \/ \E id \in Ids : TargetResolves(id)
    \/ \E id \in Ids : TargetRejects(id)
    \/ \E id \in Ids : BackoffDone(id)
    \/ Tick

Spec == Init /\ [][Next]_vars

\* The event loop runs every queued continuation and fires every due timer,
\* time passes, and every call of a target settles.
Fairness ==
    /\ WF_vars(Validated)
    /\ WF_vars(Started)
    /\ WF_vars(Tick)
    /\ \A id \in Ids :
          /\ WF_vars(LoopDequeued(id))
          /\ WF_vars(LoopRequeued(id))
          /\ WF_vars(LoopRouteSettled(id))
          /\ WF_vars(LoopTimeout(id))
          /\ WF_vars(RouteChecked(id))
          /\ WF_vars(RouteRejected(id))
          /\ WF_vars(TargetResolves(id) \/ TargetRejects(id))
          /\ WF_vars(BackoffDone(id))

FairSpec == Spec /\ Fairness

\* ------------------------------------------------------------ QueueSpec
\* A PriorityMessageQueue driven directly through its public methods.
QueuePriorities == {{}, {0}, {2}, {3}, {5}, {6}, {9}}

QEnqueue ==
    /\ nextId <= MaxEnqueues
    /\ \E p \in QueuePriorities :
          queues' = enqueue(queues, MkMessage(nextId, "TEST_TYPE", "receiver", p))
    /\ nextId' = nextId + 1
    /\ UNCHANGED <<isProcessing, returned, orchVars>>
    /\ UNCHANGED <<compVars, targetState>>

QDequeue ==
    /\ returned' = dequeue(queues).message
    /\ queues' = dequeue(queues).queues
    /\ UNCHANGED <<isProcessing, nextId, orchVars>>
    /\ UNCHANGED <<compVars, targetState>>

QClear ==
    /\ queues' = EmptyQueues
    /\ UNCHANGED <<isProcessing, returned, nextId, orchVars>>
    /\ UNCHANGED <<compVars, targetState>>

QTick ==
    /\ queues' = AgeQueues(queues)
    /\ UNCHANGED <<isProcessing, returned, nextId, orchVars>>
    /\ UNCHANGED <<compVars, targetState>>

QueueNext == QEnqueue \/ QDequeue \/ QClear \/ QTick

QueueSpec == Init /\ [][QueueNext]_vars

\* ---------------------------------------------------------- CircuitSpec
\* execute(operation, context) is called: checkState runs at once; the call
\* is rejected with its error or suspends before invoking the operation.
CbExecute(c) ==
    /\ exec[c].pc = "none"
    /\ \A b \in Calls : b < c => exec[b].pc # "none"
    /\ LET r == checkState(breaker)
       IN  /\ breaker' = r.cb
           /\ exec' = [exec EXCEPT ![c] =
                  IF r.threw
                  THEN [pc |-> "rejected",
                        errorType |-> ErrorTypeMember("OPERATION"),
                        remainingTimeout |-> remainingTimeout(breaker),
                        movedTo |-> ""]
                  ELSE [NoExec EXCEPT !.pc = "checked",
                                      !.movedTo = IF r.cb.state # breaker.state
                                                  THEN r.cb.state ELSE ""]]
    /\ UNCHANGED <<coreVars, mqVars, baVars, sinceLastFailure, hmVars, regVars>>

\* execute resumes after checkState and invokes the operation.
CbInvoke(c) ==
    /\ exec[c].pc = "checked"
    /\ exec' = [exec EXCEPT ![c].pc = "operating"]
    /\ UNCHANGED <<coreVars, mqVars, baVars, breaker, sinceLastFailure, hmVars, regVars>>

\* The operation resolves: onSuccess, and execute returns its result.
CbOperationResolves(c) ==
    /\ exec[c].pc = "operating"
    /\ breaker' = onSuccess(breaker)
    /\ exec' = [exec EXCEPT ![c].pc = "returned"]
    /\ UNCHANGED <<coreVars, mqVars, baVars, sinceLastFailure, hmVars, regVars>>

\* The operation rejects: onFailure, which also sets lastFailureTime to
\* now, and execute throws its AgentError.
CbOperationRejects(c) ==
    /\ exec[c].pc = "operating"
    /\ breaker' = onFailure(breaker)
    /\ sinceLastFailure' = 0
    /\ exec' = [exec EXCEPT ![c] = [pc |-> "threw",
                                     errorType |-> ErrorTypeMember("OPERATION"),
                                     remainingTimeout |-> 0,
                                     movedTo |-> exec[c].movedTo]]
    /\ UNCHANGED <<coreVars, mqVars, baVars, hmVars, regVars>>

\* reset() is called on a breaker it changes; lastFailureTime becomes 0.
CbReset ==
    /\ breaker # reset(breaker) \/ sinceLastFailure # -1
    /\ breaker' = reset(breaker)
    /\ sinceLastFailure' = -1
    /\ UNCHANGED <<coreVars, mqVars, baVars, exec, hmVars, regVars>>

\* One unit of time passes, once no continuation is waiting to run.
CbTick ==
    /\ \A c \in Calls : exec[c].pc # "checked"
    /\ breaker.sinceStateChange < Horizon
    /\ breaker' = [breaker EXCEPT !.sinceStateChange = @ + 1]
    /\ sinceLastFailure' = IF sinceLastFailure = -1 THEN -1
                           ELSE Min(sinceLastFailure + 1, Horizon)
    /\ UNCHANGED <<coreVars, mqVars, baVars, exec, hmVars, regVars>>

CircuitNext ==
    \/ \E c \in Calls : CbExecute(c)
    \/ \E c \in Calls : CbInvoke(c)
    \/ \E c \in Calls : CbOperationResolves(c)
    \/ \E c \in Calls : CbOperationRejects(c)
    \/ CbReset
    \/ CbTick

CircuitSpec == Init /\ [][CircuitNext]_vars

\* The breaker used by one caller at a time: execute is called only when
\* every earlier call has settled.
InFlight(c) == exec[c].pc \in {"checked", "operating"}

CbExecuteAlone(c) ==
    /\ \A b \in Calls : ~InFlight(b)
    /\ CbExecute(c)

SerialCircuitNext ==
    \/ \E c \in Calls : CbExecuteAlone(c)
    \/ \E c \in Calls : CbInvoke(c)
    \/ \E c \in Calls : CbOperationResolves(c)
    \/ \E c \in Calls : CbOperationRejects(c)
    \/ CbReset
    \/ CbTick

SerialCircuitSpec == Init /\ [][SerialCircuitNext]_vars

\* ---------------------------------------------------------- MetricsSpec
\* The latency passed with the next record call: its number since the last
\* reset, so that every recorded sample can be told from every other.
NextSample == metrics.messageCount + 1

MRecordSuccess ==
    /\ metrics.messageCount < MaxRecords
    /\ metrics' = recordSuccess(metrics, NextSample)
    /\ UNCHANGED <<coreVars, mqVars, baVars, cbVars, regVars>>

MRecordError ==
    /\ metrics.messageCount < MaxRecords
    /\ metrics' = recordError(metrics, NextSample)
    /\ UNCHANGED <<coreVars, mqVars, baVars, cbVars, regVars>>

\* reset() on a HealthMetrics that has recorded something.
MReset ==
    /\ metrics # NewHealthMetrics
    /\ metrics' = NewHealthMetrics
    /\ UNCHANGED <<coreVars, mqVars, baVars, cbVars, regVars>>

MetricsNext == MRecordSuccess \/ MRecordError \/ MReset

MetricsSpec == Init /\ [][MetricsNext]_vars

\* --------------------------------------------------------- RegistrySpec
\* registerAgent(name, agent) is called directly.
RgRegister(name, agent) ==
    /\ registry.initPc # 1
    /\ registry' = registryRegisterAgent(registry, name, agent, handleState)
    /\ regResult' = Registration(registry, regResult, name, agent)
    /\ UNCHANGED <<coreVars, mqVars, baVars, cbVars, hmVars, handleState, disposeResult>>

\* initializeCoreAgents() is called: it clears both maps and creates the
\* orchestrator and, further on, the three workers (all IDLE).
RgInitClear ==
    /\ registry.initPc = 0
    /\ registry' = [registry EXCEPT !.agents = <<>>, !.lastHealthCheck = <<>>,
                                     !.orchestrator = TRUE, !.orchestratorAgents = {},
                                     !.initPc = 1, !.initResult = "running"]
    /\ handleState' = [h \in Handles |-> IF h \in TestAgents THEN handleState[h]
                                         ELSE "IDLE"]
    /\ UNCHANGED <<coreVars, mqVars, baVars, cbVars, hmVars, regResult, disposeResult>>

\* initializeCoreAgents makes its next registerAgent call (the first one in
\* the same run as the clearing) and suspends on it, or is rejected by it.
RgInitRegister ==
    /\ registry.initPc \in 1..Len(CoreNames)
    /\ LET name == CoreNames[registry.initPc]
           failed == registrationError(registry, name, name) # ""
       IN  /\ registry' =
                 [registryRegisterAgent(registry, name, name, handleState) EXCEPT
                     !.initPc = IF failed THEN 0 ELSE @ + 1,
                     !.initResult = IF failed THEN "rejected" ELSE @]
           /\ regResult' = Registration(registry, regResult, name, name)
    /\ UNCHANGED <<coreVars, mqVars, baVars, cbVars, hmVars, handleState, disposeResult>>

\* initializeCoreAgents resumes after the last registration and registers
\* the three workers with this.orchestrator.
RgInitFinish ==
    /\ registry.initPc = Len(CoreNames) + 1
    /\ registry' =
          IF registry.orchestrator
          THEN [registry EXCEPT
                   !.orchestratorAgents = {CoreNames[i] : i \in 2..Len(CoreNames)},
                   !.initPc = 0, !.initResult = "resolved"]
          ELSE [registry EXCEPT !.initPc = 0, !.initResult = "rejected"]
    /\ UNCHANGED <<coreVars, mqVars, baVars, cbVars, hmVars, regResult, handleState, disposeResult>>

\* The health-check interval fires.
RgHealthCheck ==
    /\ registry.initPc # 1
    /\ registry.healthCheckTimer
    /\ registry' = [registry EXCEPT
                       !.lastHealthCheck = snapshotAll(registry.agents, @, handleState)]
    /\ UNCHANGED <<coreVars, mqVars, baVars, cbVars, hmVars, regResult, handleState, disposeResult>>

\* dispose() is called.
RgDispose ==
    /\ registry.initPc # 1
    /\ registry' = dispose(registry)
    /\ disposeResult' = Disposal(registry, disposeResult)
    /\ UNCHANGED <<coreVars, mqVars, baVars, cbVars, hmVars, regResult, handleState>>

\* A registered agent changes its state.
RgAgentStateChanges(h) ==
    /\ registry.initPc # 1
    /\ \E i \in 1..Len(registry.agents) : registry.agents[i].value = h
    /\ handleState' = [handleState EXCEPT
                          ![h] = IF @ = "IDLE" THEN "ERROR" ELSE "IDLE"]
    /\ UNCHANGED <<coreVars, mqVars, baVars, cbVars, hmVars, registry, regResult, disposeResult>>

RegistryNext ==
    \/ \E name \in TestNames, agent \in TestAgents \cup {NullAgent} :
          RgRegister(name, agent)
    \/ RgInitClear
    \/ RgInitRegister
    \/ RgInitFinish
    \/ RgHealthCheck
    \/ RgDispose
    \/ \E h \in Handles : RgAgentStateChanges(h)

RegistrySpec == Init /\ [][RegistryNext]_vars

\* ---------------------------------------------------------- MessageQueueSpec
\* A MessageQueue of capacity maxSize driven through its public methods.
MqPriorities == {{}, {1}, {2}}

\* enqueue(message) is called; the ids count the calls.
MqEnqueue(id, p) ==
    /\ mqCall[id].pc = "none"
    /\ \A j \in 1..(id - 1) : mqCall[j].pc # "none"
    /\ LET r == mqEnqueue(mq, MkMessage(id, "TEST", "test-agent", p), maxSize)
       IN  /\ mq' = r.mq
           /\ mqCall' = [mqCall EXCEPT ![id] = r.call]
    /\ UNCHANGED <<coreVars, cbVars, hmVars, regVars, baVars, processed>>

\* A drain resumes with the message it shifted and calls the callback.
MqInvoke(id) ==
    /\ mqCall[id].pc = "dequeue"
    /\ mqCall' = [mqCall EXCEPT ![id].pc = "callback"]
    /\ processed' = Append(processed, mqCall[id].current)
    /\ UNCHANGED <<coreVars, cbVars, hmVars, regVars, baVars, mq>>

MqCallbackResolves(id) ==
    /\ mqCall[id].pc = "callback"
    /\ mq' = mqContinue(mq, mqCall[id]).mq
    /\ mqCall' = [mqCall EXCEPT ![id] = mqContinue(mq, mqCall[id]).call]
    /\ UNCHANGED <<coreVars, cbVars, hmVars, regVars, baVars, processed>>

MqCallbackRejects(id) ==
    /\ mqCall[id].pc = "callback"
    /\ mq' = mqCallbackFailed(mq, mqCall[id]).mq
    /\ mqCall' = [mqCall EXCEPT ![id] = mqCallbackFailed(mq, mqCall[id]).call]
    /\ UNCHANGED <<coreVars, cbVars, hmVars, regVars, baVars, processed>>

MqDequeue ==
    /\ mq' = mqDequeue(mq).mq
    /\ UNCHANGED <<coreVars, cbVars, hmVars, regVars, baVars, mqCall, processed>>

MqClear ==
    /\ mq' = mqClear(mq)
    /\ UNCHANGED <<coreVars, cbVars, hmVars, regVars, baVars, mqCall, processed>>

MqSetProcessing(state) ==
    /\ mq' = setProcessing(mq, state)
    /\ UNCHANGED <<coreVars, cbVars, hmVars, regVars, baVars, mqCall, processed>>

MessageQueueNext ==
    \/ \E id \in MqIds, p \in MqPriorities : MqEnqueue(id, p)
    \/ \E id \in MqIds : MqInvoke(id)
    \/ \E id \in MqIds : MqCallbackResolves(id)
    \/ \E id \in MqIds : MqCallbackRejects(id)
    \/ MqDequeue
    \/ MqClear
    \/ \E state \in BOOLEAN : MqSetProcessing(state)

MessageQueueSpec == Init /\ [][MessageQueueNext]_vars

\* The same queue with a callback that always resolves and no caller of
\* dequeue, clear or setProcessing, under a fair event loop.
DrainNext ==
    \/ \E id \in MqIds, p \in MqPriorities : MqEnqueue(id, p)
    \/ \E id \in MqIds : MqInvoke(id)
    \/ \E id \in MqIds : MqCallbackResolves(id)

DrainSpec ==
    /\ Init
    /\ [][DrainNext]_vars
    /\ WF_vars(\E id \in MqIds : MqInvoke(id))
    /\ WF_vars(\E id \in MqIds : MqCallbackResolves(id))

\* ------------------------------------------------------------ AgentSpec
\* A BaseAgent subclass driven through enqueueMessage, processNextMessage,
\* emergencyStop and reset.  Its private queue, mq, is built by
\* `new MessageQueue(this.config.maxQueueSize)`: the number is taken for the
\* processCallback and the capacity is the default one.
AgentPriorities == {{}, {1}}

\* The messages enqueueMessage is called with: schema-valid ones, and one
\* that lacks the required targetAgent.
AgentMessages(id) ==
    {MkMessage(id, "TEST", "test-agent", p) : p \in AgentPriorities}
        \cup {[id |-> id, type |-> "TEST"]}

\* enqueueMessage(message) is called and suspends on validateMessage.
AgEnqueueMessage(id, message) ==
    /\ id <= MaxAgentMessages
    /\ mqCall[id].pc = "none"
    /\ \A j \in 1..(id - 1) : mqCall[j].pc # "none"
    /\ mqCall' = [mqCall EXCEPT ![id] = MqCall("validating", message, Undefined)]
    /\ agentOp' = "enqueueMessage"
    /\ UNCHANGED <<coreVars, cbVars, hmVars, regVars, discarded, mq, processed, agentState, pnm>>

\* validateMessage settles: enqueueMessage resumes with the validated
\* message and calls messageQueue.enqueue, or it rejects with the AgentError
\* of type VALIDATION that validateMessage threw.
AgValidated(id) ==
    /\ mqCall[id].pc = "validating"
    /\ IF schemaValid(mqCall[id].message)
       THEN LET r == mqEnqueue(mq, mqCall[id].message, defaultMaxSize)
            IN  /\ mq' = r.mq
                /\ mqCall' = [mqCall EXCEPT ![id] = r.call]
       ELSE /\ mq' = mq
            /\ mqCall' = [mqCall EXCEPT ![id].pc = "VALIDATION"]
    /\ agentOp' = "enqueueMessage"
    /\ UNCHANGED <<coreVars, cbVars, hmVars, regVars, discarded, processed, agentState, pnm>>

\* The queue's drain resumes and calls processCallback, which is a number:
\* the call throws a TypeError inside the try block.
AgQueueCallbackThrows(id) ==
    /\ mqCall[id].pc = "dequeue"
    /\ mq' = mqCallbackFailed(mq, mqCall[id]).mq
    /\ mqCall' = [mqCall EXCEPT ![id] = mqCallbackFailed(mq, mqCall[id]).call]
    /\ agentOp' = "enqueueMessage"
    /\ UNCHANGED <<coreVars, cbVars, hmVars, regVars, discarded, processed, agentState, pnm>>

\* processNextMessage() is called: dequeue shifts the queue before the call
\* suspends on it.
AgProcessNextMessage(c) ==
    /\ pnm[c].pc = "none"
    /\ \A b \in 1..(c - 1) : pnm[b].pc # "none"
    /\ mq' = mqDequeue(mq).mq
    /\ pnm' = [pnm EXCEPT ![c].pc = "dequeue", ![c].message = mqDequeue(mq).message]
    /\ agentOp' = "processNextMessage"
    /\ UNCHANGED <<coreVars, cbVars, hmVars, regVars, discarded, mqCall, processed, agentState>>

\* processNextMessage resumes with what dequeue returned: nothing, and it
\* sets IDLE and returns; a message, and it sets WORKING, arms the timeout
\* and calls processMessage.
AgDequeued(c) ==
    /\ pnm[c].pc = "dequeue"
    /\ IF pnm[c].message = Undefined
       THEN /\ agentState' = "IDLE"
            /\ pnm' = [pnm EXCEPT ![c].pc = "resolved"]
            /\ mq' = mq
       ELSE /\ agentState' = "WORKING"
            /\ mq' = setProcessing(mq, TRUE)
            /\ pnm' = [pnm EXCEPT ![c].pc = "working", ![c].timer = TRUE,
                                   ![c].inFlight = TRUE]
    /\ agentOp' = "processNextMessage"
    /\ UNCHANGED <<coreVars, cbVars, hmVars, regVars, discarded, mqCall, processed>>

\* processMessage settles: before the timeout, and the finally callback
\* runs; or after it, the call having gone on running.
AgProcessMessageSettles(c, outcome) ==
    /\ pnm[c].inFlight
    /\ mq' = processMessageSettles(mq, pnm[c], outcome).mq
    /\ pnm' = [pnm EXCEPT ![c] = processMessageSettles(mq, pnm[c], outcome).call]
    /\ agentOp' = "processMessage"
    /\ UNCHANGED <<coreVars, cbVars, hmVars, regVars, discarded, mqCall, processed, agentState>>

\* The timeout timer of a call fires: it rejects the race if that is still
\* open, and has no effect otherwise (the timer is never cleared).
AgTimerFires(c) ==
    /\ pnm[c].timer
    /\ IF pnm[c].pc = "working"
       THEN /\ mq' = setProcessing(mq, FALSE)
            /\ pnm' = [pnm EXCEPT ![c].pc = "settled", ![c].outcome = "TIMEOUT",
                                   ![c].timer = FALSE]
       ELSE /\ mq' = mq
            /\ pnm' = [pnm EXCEPT ![c].timer = FALSE]
    /\ agentOp' = "timer"
    /\ UNCHANGED <<coreVars, cbVars, hmVars, regVars, discarded, mqCall, processed, agentState>>

\* processNextMessage resumes after the race: line 108, or the two catch
\* blocks.
AgAfterRace(c) ==
    /\ pnm[c].pc = "settled"
    /\ agentState' = stateAfterRace(pnm[c].outcome)
    /\ IF pnm[c].outcome = "resolved"
       THEN /\ pnm' = [pnm EXCEPT ![c].pc = "resolved"]
            /\ mq' = mq
       ELSE /\ pnm' = [pnm EXCEPT ![c].pc = "rejected",
                                   ![c].errorType = rejectionType(pnm[c].outcome)]
            /\ mq' = setProcessing(mq, FALSE)
    /\ agentOp' = "processNextMessage"
    /\ UNCHANGED <<coreVars, cbVars, hmVars, regVars, discarded, mqCall, processed>>

\* emergencyStop(): clear() on the private queue, then setState(IDLE).
AgEmergencyStop ==
    /\ mq' = mqClear(mq)
    /\ agentState' = "IDLE"
    /\ agentOp' = "emergencyStop"
    /\ discarded' = discarded \cup {mq.queue[i].id : i \in 1..Len(mq.queue)}
    /\ UNCHANGED <<coreVars, cbVars, hmVars, regVars, mqCall, processed, pnm>>

AgReset ==
    /\ agentState' = "IDLE"
    /\ mq' = mqClear(mq)
    /\ agentOp' = "reset"
    /\ UNCHANGED <<coreVars, cbVars, hmVars, regVars, discarded, mqCall, processed, pnm>>

AgentNext ==
    \/ \E id \in MqIds : \E message \in AgentMessages(id) : AgEnqueueMessage(id, message)
    \/ \E id \in MqIds : AgValidated(id)
    \/ \E id \in MqIds : AgQueueCallbackThrows(id)
    \/ \E c \in ProcessCalls : AgProcessNextMessage(c)
    \/ \E c \in ProcessCalls : AgDequeued(c)
    \/ \E c \in ProcessCalls, outcome \in {"resolved", "rejected"} :
          AgProcessMessageSettles(c, outcome)
    \/ \E c \in ProcessCalls : AgTimerFires(c)
    \/ \E c \in ProcessCalls : AgAfterRace(c)
    \/ AgEmergencyStop
    \/ AgReset

AgentSpec == Init /\ [][AgentNext]_vars

\* ------------------------------------------------- claims on the queue
\* The tier the specification assigns to a priority: above 5 high, above 2
\* (up to 5) normal, anything else, an absent priority included, low.
ClaimRank(message) ==
    IF HasPriority(message) /\ message.priority > 5 THEN 3
    ELSE IF HasPriority(message) /\ message.priority > 2 THEN 2
    ELSE 1

\* A dequeue() call that returned a message has just been made.
DequeueReturned == returned' # returned /\ returned' # Undefined

\* C1: dequeue() returns a message of the highest tier that has a message
\* queued: no queued message is of a higher tier than the one returned, the
\* returned message was queued and is removed, and dequeue() returns
\* undefined only from an empty queue.
C1_TierPrecedence ==
    [][ /\ DequeueReturned =>
            /\ \E x \in Items(queues) : x.message = returned'
            /\ \A x \in Items(queues) : ClaimRank(x.message) <= ClaimRank(returned')
            /\ Items(queues') = {x \in Items(queues) : x.message # returned'}
        /\ (returned' = Undefined /\ returned # Undefined) => size(queues) = 0
      ]_vars

\* C1 witness: a high-tier message was returned while a normal-tier and a
\* low-tier message, both enqueued before it, are still queued.
C1_Witness ==
    /\ returned # Undefined
    /\ ClaimRank(returned) = 3
    /\ \E x \in Items(queues) : ClaimRank(x.message) = 2 /\ x.message.id < returned.id
    /\ \E x \in Items(queues) : ClaimRank(x.message) = 1 /\ x.message.id < returned.id

\* C2: within a tier messages leave in the order they were enqueued (ids are
\* given in enqueue order): the message dequeue() returns was enqueued before
\* every other queued message of its tier, whatever their priority values.
C2_FifoWithinTier ==
    [][ DequeueReturned =>
            \A x \in Items(queues) :
                ClaimRank(x.message) = ClaimRank(returned') =>
                    returned'.id <= x.message.id
      ]_vars

\* C2 witness: the returned message has a lower priority value than a message
\* of its tier that was enqueued after it and is still queued, and an enqueue
\* happened between two dequeues (a later message is already queued behind).
C2_Witness ==
    /\ returned # Undefined
    /\ HasPriority(returned)
    /\ \E x \in Items(queues) :
          /\ ClaimRank(x.message) = ClaimRank(returned)
          /\ HasPriority(x.message)
          /\ x.message.priority > returned.priority
          /\ x.message.id > returned.id
    /\ \E x \in Items(queues) : x.age # 0


\* ------------------------------------------------- orchestrator claims
\* Ids of the messages held in the queue, and of those handed to a target.
QueuedIds == {item.message.id : item \in Items(queues)}
ReceivedIds == {received[i].id : i \in 1..Len(received)}

\* Message id waits in the queue for a registered target that never throws.
C3_Waiting(id) ==
    \E item \in Items(queues) :
        /\ item.message.id = id
        /\ item.message.targetAgent \in AlwaysSucceeds \cap DOMAIN agentStates

\* What a target that never throws has received is in submission order
\* within each tier, without repetition.
C3_InOrderAtMostOnce ==
    \A i, j \in 1..Len(received) :
        (/\ i < j
         /\ received[i].targetAgent = received[j].targetAgent
         /\ received[i].targetAgent \in AlwaysSucceeds
         /\ TierOf(received[i]) = TierOf(received[j]))
            => received[i].id < received[j].id

\* C3: messages of one tier submitted to one registered target whose
\* processMessage always succeeds are received in submission order, each
\* exactly once: none twice or out of order, and every one that waits in the
\* queue for the target is eventually received.
C3_DeliveredOnceInOrder ==
    /\ []C3_InOrderAtMostOnce
    /\ \A id \in Ids : C3_Waiting(id) ~> (id \in ReceivedIds)

\* The drain loops that are running (suspended at an await).
ActiveLoops == {id \in Ids : loopPc[id] \in {"dequeued", "requeued", "routing"}}

\* C4: at most one drain loop is active in every reachable state, and
\* isProcessing is true exactly while one is.
C4_SingleDrainLoop ==
    /\ Cardinality(ActiveLoops) <= 1
    /\ isProcessing <=> ActiveLoops # {}

\* A loop started by one call handles the message of another call, which
\* saw isProcessing = true, started no loop and resolved.
C4_Witness ==
    \E id \in ActiveLoops :
        /\ loopMsg[id] # Undefined
        /\ loopMsg[id].id # id
        /\ callResult[loopMsg[id].id] = Resolved
        /\ loopPc[loopMsg[id].id] = "none"

\* The calls of a target's processMessage that have not settled.
OutstandingCalls == {id \in Ids : route[id].pc = "calling"}

\* C5: at most one call of a target's processMessage is outstanding in
\* every reachable state.
C5_OneOutstandingCall == Cardinality(OutstandingCalls) <= 1

\* A second target is called while the call the timeout gave up on is open.
C5_Witness ==
    \E i, j \in OutstandingCalls :
        /\ i # j
        /\ \E e \in log : e.text = "Failed to process message" /\ e.id = i

\* C6: under fair scheduling the drain loop eventually ends for good with
\* the queue empty and isProcessing = false.
C6_EventuallyDrained == <>[](size(queues) = 0 /\ ~isProcessing)

\* The drain loop of call id is about to handle a message for a registered
\* target that is unhealthy.
C7_UnhealthyDequeued(id) ==
    /\ loopPc[id] = "dequeued"
    /\ loopMsg[id].targetAgent \in DOMAIN agentStates
    /\ ~isAgentHealthy(agentStates, loopMsg[id].targetAgent)

\* The drain loop of call id takes its step on the message it dequeued.
LoopHandles(id) ==
    /\ loopPc[id] = "dequeued"
    /\ <<loopPc[id], loopMsg[id]>>' # <<loopPc[id], loopMsg[id]>>

\* The messages the loop dropped because their target was unhealthy.
DroppedIds == {e.id : e \in {x \in log : x.text = "unhealthy, dropping message"}}

\* C7: a message dequeued for a registered, unhealthy target is put back
\* when the target's errorCount is below maxRetries (the queue is as long
\* as before the dequeue) and dropped for good otherwise; the target is not
\* invoked either way.
C7_RequeueOrDrop ==
    /\ [](DroppedIds \cap QueuedIds = {})
    /\ [][\A id \in Ids : (C7_UnhealthyDequeued(id) /\ LoopHandles(id)) =>
            /\ received' = received
            /\ route' = route
            /\ IF agentStates[loopMsg[id].targetAgent].errorCount < maxRetries
               THEN /\ size(queues') = size(queues) + 1
                    /\ loopMsg[id].id \in QueuedIds'
                    /\ loopMsg[id].id \notin DroppedIds'
               ELSE /\ size(queues') <= size(queues)
                    /\ loopMsg[id].id \notin QueuedIds'
                    /\ loopMsg[id].id \in DroppedIds']_vars

\* A message was dropped for a target that had used up its retries.
C7_Witness ==
    \E id \in DroppedIds : \E a \in DOMAIN agentStates :
        /\ agentStates[a].errorCount >= maxRetries
        /\ id \notin QueuedIds

C9_FullQueueFailsWithOperation ==
    [][(/\ validating # <<>>
        /\ validating' = Tail(validating)
        /\ schemaValid(Head(validating))) =>
          IF size(queues) >= maxQueueSize
          THEN /\ queues' = queues
               /\ callResult'[Head(validating).id].status = "rejected"
               /\ "OPERATION" \in DOMAIN AgentErrorType
               /\ callResult'[Head(validating).id].errorType = ErrorTypeMember("OPERATION")
          ELSE Head(validating).id \in QueuedIds']_vars

\* A call was rejected because the queue was full.
C9_Witness ==
    \E id \in Ids :
        /\ callResult[id] = Rejected(ErrorTypeMember("OPERATION"))
        /\ size(queues) >= maxQueueSize

\* C10: every message a target has received is of a type the target was
\* registered with.
C10_OnlyRegisteredTypes ==
    \A i \in 1..Len(received) : received[i].type \in RegisteredTypes

\* A target received a message of a type it was not registered with.
C10_Witness ==
    \E i \in 1..Len(received) : received[i].type \notin RegisteredTypes


\* How often a target's processMessage was invoked with message id, and how
\* many routeMessage calls withRetry has made for it.
Invocations(id) == Cardinality({i \in 1..Len(received) : received[i].id = id})
Attempts(id) == IF route[id].pc = "none" THEN 0 ELSE route[id].attempt + 1

\* Message id is the only one routed to its target.
OnlyRouted(id) ==
    /\ route[id].pc # "none"
    /\ \A j \in Ids \ {id} :
          route[j].pc = "none"
              \/ route[j].message.targetAgent # route[id].message.targetAgent

\* C11: the only message routed to a target is handed to it at most
\* maxRetries + 1 times; exactly maxRetries + 1 times when every invocation
\* failed and the routing gave up, and exactly twice when the target failed
\* once and then succeeded.
C11_InvokedMaxRetriesPlusOne ==
    \A id \in Ids : OnlyRouted(id) =>
        /\ Invocations(id) <= maxRetries + 1
        /\ route[id].pc = "failed" => Invocations(id) = maxRetries + 1
        /\ (route[id].pc = "resolved" /\ route[id].attempt = 1) => Invocations(id) = 2

\* The routing of the only message for a target gave up after the target
\* was invoked maxRetries times.
C11_Witness ==
    \E id \in Ids :
        /\ OnlyRouted(id)
        /\ route[id].pc = "failed"
        /\ Invocations(id) = maxRetries

\* C12 (as stated): no message is given more than maxRetries routing
\* attempts.
C12_AtMostMaxRetriesAttempts == \A id \in Ids : Attempts(id) <= maxRetries

\* C12 (amended): no message is given more than maxRetries + 1 routing
\* attempts, its target is invoked at most as often, and once the last
\* attempt has failed the message is not in the queue and is never
\* attempted again.
C12_AttemptsCapped ==
    /\ [](\A id \in Ids :
            /\ Attempts(id) <= maxRetries + 1
            /\ Invocations(id) <= Attempts(id)
            /\ route[id].pc = "failed" =>
                  Attempts(id) = maxRetries + 1 /\ id \notin QueuedIds)
    /\ [][\A id \in Ids : route[id].pc = "failed" =>
            route'[id] = route[id] /\ Invocations(id)' = Invocations(id)]_vars

\* A routing gave up after its attempt numbered maxRetries.
C12_Witness ==
    \E id \in Ids : route[id].pc = "failed" /\ Attempts(id) = maxRetries + 1

\* C17: a message dequeued for a registered target whose circuit has been
\* OPEN for resetTimeout is routed to it (the recovery probe starts).
C17_ProbeAfterReset ==
    [][\A id \in Ids :
        (/\ LoopHandles(id)
         /\ loopMsg[id].targetAgent \in DOMAIN agentStates
         /\ agentStates[loopMsg[id].targetAgent].circuitBreaker.state = "OPEN"
         /\ agentStates[loopMsg[id].targetAgent].circuitBreaker.sinceStateChange
                >= resetTimeout)
            => route'[loopMsg[id].id].pc # "none"]_vars

\* A message was dropped although the circuit of its target had been OPEN
\* for resetTimeout.
C17_Witness ==
    \E id \in DroppedIds : \E a \in DOMAIN agentStates :
        /\ agentStates[a].circuitBreaker.state = "OPEN"
        /\ agentStates[a].circuitBreaker.sinceStateChange >= resetTimeout
        /\ route[id].pc = "none"


\* ----------------------------------------- claims on the CircuitBreaker
\* The operation of execute call c fails, or succeeds, in this step.
OperationFails(c) == exec[c].pc = "operating" /\ exec'[c].pc = "threw"
OperationSucceeds(c) == exec[c].pc = "operating" /\ exec'[c].pc = "returned"

\* Call c runs checkState in this step.
ExecuteCalled(c) == exec[c].pc = "none" /\ exec'[c].pc # "none"

\* C13: a CLOSED breaker holds fewer than failureThreshold failures; each
\* failing call in CLOSED adds one and the breaker is OPEN afterwards exactly
\* when the count has reached failureThreshold, CLOSED otherwise; a
\* successful call in CLOSED resets the count to 0.
C13_OpensAtThreshold ==
    /\ [](breaker.state = "CLOSED" => breaker.failures < failureThreshold)
    /\ [][\A c \in Calls :
            /\ (OperationFails(c) /\ breaker.state = "CLOSED") =>
                  /\ breaker'.failures = breaker.failures + 1
                  /\ breaker'.state =
                        IF breaker.failures + 1 >= failureThreshold
                        THEN "OPEN" ELSE "CLOSED"
            /\ (OperationSucceeds(c) /\ breaker.state = "CLOSED") =>
                  breaker'.state = "CLOSED" /\ breaker'.failures = 0]_vars

\* failureThreshold calls failed one after the other and the breaker is OPEN.
C13_Witness ==
    /\ breaker.state = "OPEN"
    /\ breaker.failures = failureThreshold
    /\ Cardinality({c \in Calls : exec[c].pc = "threw"}) = failureThreshold
    /\ \A c \in Calls : exec[c].pc \in {"threw", "none"}

\* C14: an execute call made while the breaker is OPEN and resetTimeout has
\* not elapsed is rejected with an error of the OPERATION member of
\* AgentErrorType that carries the remaining cooldown, and its operation is
\* never invoked.
C14_OpenRejectsWithOperation ==
    [][\A c \in Calls :
        /\ (/\ ExecuteCalled(c)
            /\ breaker.state = "OPEN"
            /\ breaker.sinceStateChange < resetTimeout) =>
              /\ exec'[c].pc = "rejected"
              /\ exec'[c].remainingTimeout = resetTimeout - breaker.sinceStateChange
              /\ breaker' = breaker
              /\ "OPERATION" \in DOMAIN AgentErrorType
              /\ exec'[c].errorType = ErrorTypeMember("OPERATION")
        /\ exec[c].pc = "rejected" => exec'[c] = exec[c]]_vars

\* A call was rejected by the OPEN breaker.
C14_Witness ==
    \E c \in Calls :
        /\ exec[c].pc = "rejected"
        /\ exec[c].remainingTimeout > 0
        /\ breaker.state = "OPEN"

\* C15: an execute call made once the breaker has been OPEN for
\* resetTimeout moves it to HALF_OPEN and is let through, and a call let
\* through invokes its operation next.
C15_HalfOpenAfterReset ==
    [][\A c \in Calls :
        /\ (/\ ExecuteCalled(c)
            /\ breaker.state = "OPEN"
            /\ breaker.sinceStateChange >= resetTimeout) =>
              /\ breaker'.state = "HALF_OPEN"
              /\ exec'[c].pc = "checked"
        /\ exec[c].pc = "checked" => exec'[c].pc \in {"checked", "operating"}]_vars

\* The call that found the breaker OPEN for resetTimeout has its operation
\* running in HALF_OPEN.
C15_Witness ==
    \E c \in Calls :
        /\ exec[c].pc = "operating"
        /\ breaker.state = "HALF_OPEN"
        /\ \A b \in Calls \ {c} : exec[b].pc \in {"threw", "none"}

\* C16: a step that takes the breaker to CLOSED leaves its failure counter
\* at 0, and a call that succeeds in HALF_OPEN leaves it CLOSED with 0.
C16_ClosedMeansNoFailures ==
    [][/\ (breaker.state # "CLOSED" /\ breaker'.state = "CLOSED") =>
              breaker'.failures = 0
       /\ \A c \in Calls : (OperationSucceeds(c) /\ breaker.state = "HALF_OPEN") =>
              breaker'.state = "CLOSED" /\ breaker'.failures = 0]_vars

\* The probe of a breaker that had opened succeeded and closed it.
C16_Witness ==
    /\ breaker.state = "CLOSED"
    /\ breaker.failures = 0
    /\ Cardinality({c \in Calls : exec[c].pc = "threw"}) = failureThreshold
    /\ \E c \in Calls :
          /\ exec[c].pc = "returned"
          /\ \A b \in Calls : b < c => exec[b].pc = "threw"


\* ------------------------------------------ claims on the HealthMetrics
\* The samples recorded since the last reset are 1, 2, ..., messageCount;
\* the most recent Min(messageCount, maxSamples) of them, oldest first.
MostRecentSamples ==
    LET n == metrics.messageCount
        k == Min(n, maxSamples)
    IN  [i \in 1..k |-> n - k + i]

\* C18: at most maxSamples samples are retained, they are the most recent
\* ones recorded, oldest first, and avgProcessingTime is their sum over
\* their number, or 0 when there are none.
C18_KeepsMostRecentSamples ==
    /\ Len(metrics.processingTimes) <= maxSamples
    /\ metrics.processingTimes = MostRecentSamples
    /\ getMetrics(metrics).avgProcessingTime =
          IF metrics.messageCount = 0
          THEN Ratio(0, 1)
          ELSE Ratio(SumSeq(MostRecentSamples), Min(metrics.messageCount, maxSamples))

\* More than maxSamples samples were recorded and the oldest are gone.
C18_Witness ==
    /\ metrics.messageCount > maxSamples + 1
    /\ Len(metrics.processingTimes) = maxSamples
    /\ Head(metrics.processingTimes) = metrics.messageCount - maxSamples + 1

\* C19: errorCount never exceeds messageCount; successRate is 100 with no
\* message recorded and (messageCount - errorCount) / messageCount * 100
\* otherwise, so between 0 and 100.
C19_SuccessRate ==
    LET n == metrics.messageCount
        e == metrics.errorCount
        rate == getMetrics(metrics).successRate
    IN  /\ e <= n
        /\ rate.den > 0
        /\ n = 0 => rate.num = 100 * rate.den
        /\ n > 0 => rate.num * n = (n - e) * 100 * rate.den
        /\ 0 <= rate.num /\ rate.num <= 100 * rate.den

\* Some recorded messages failed and some succeeded.
C19_Witness ==
    /\ metrics.errorCount > 0
    /\ metrics.errorCount < metrics.messageCount


\* ------------------------------------------ claims on the AgentRegistry
\* A registerAgent call is made in this step.
RegistrationMade == regResult' # regResult

InitializeSettles == registry.initPc # 0 /\ registry'.initPc = 0

\* C21: initializeCoreAgents completes without error, and when it has, the
\* orchestrator and the three workers are registered in the registry and
\* the three workers are registered with the orchestrator.
C21_CoreAgentsInitialized ==
    [][InitializeSettles =>
          /\ registry'.initResult = "resolved"
          /\ \A i \in 1..Len(CoreNames) : MapHas(registry'.agents, CoreNames[i])
          /\ registry'.orchestratorAgents =
                {CoreNames[i] : i \in 2..Len(CoreNames)}]_vars

\* A dispose call is made in this step.
DisposeCalled == disposeResult' # disposeResult

\* The registry as dispose leaves it.
Disposed ==
    /\ ~registry.healthCheckTimer
    /\ registry.agents = <<>>
    /\ registry.lastHealthCheck = <<>>
    /\ ~registry.orchestrator

\* C22: every dispose call, the first as any later one, leaves the timer
\* stopped and the agent map, the snapshot map and the orchestrator
\* reference cleared, so a call on a disposed registry changes nothing; a
\* stopped timer stays stopped, and while it is stopped the snapshots change
\* only by a registerAgent, initializeCoreAgents or dispose call.
C22_DisposeIdempotent ==
    /\ [][DisposeCalled => Disposed']_vars
    /\ [][DisposeCalled /\ Disposed => registry' = registry]_vars
    /\ [][~registry.healthCheckTimer =>
            /\ ~registry'.healthCheckTimer
            /\ registry'.lastHealthCheck # registry.lastHealthCheck =>
                  \/ RegistrationMade
                  \/ DisposeCalled
                  \/ registry'.initPc = 1]_vars

\* dispose was called on a registry whose timer an earlier dispose had
\* stopped, after agents had been registered in between.
C22_Witness ==
    /\ disposeResult.seq = 0
    /\ ~disposeResult.timerFound
    /\ Disposed
    /\ regResult.outcome = "ok"

\* C23: getAgentHealth reports every registered agent with the state the
\* agent is in.
C23_HealthIsCurrent ==
    /\ Len(getAgentHealth(registry)) = Len(registry.agents)
    /\ \A i \in 1..Len(getAgentHealth(registry)) :
          LET health == getAgentHealth(registry)[i]
          IN  /\ MapHas(registry.agents, health.name)
              /\ health.state = handleState[MapGet(registry.agents, health.name)]

\* ------------------------------------------- claims on the MessageQueue
\* C24: the messages handed to the callback are in non-increasing order of
\* priority (absent counting as 0), those of equal priority in the order of
\* their arrival.
C24_PriorityOrder ==
    \A i, j \in 1..Len(processed) :
        i < j =>
          /\ priorityOrZero(processed[i]) >= priorityOrZero(processed[j])
          /\ priorityOrZero(processed[i]) = priorityOrZero(processed[j]) =>
                processed[i].id < processed[j].id

\* The enqueue call for this message is made in this step.
EnqueueCalled(id) == mqCall[id].pc = "none" /\ mqCall'[id].pc # "none"

\* C25: of the enqueue calls made on a new queue of capacity maxSize the
\* first maxSize are accepted and the next one is rejected with QUEUE_FULL,
\* leaving the queue as it was with maxSize messages in it, and its message
\* is not handed to the callback.
C25_CapacityRespected ==
    /\ [][\A id \in MqIds : EnqueueCalled(id) =>
            /\ id <= maxSize => mqCall'[id].pc # "QUEUE_FULL"
            /\ id = maxSize + 1 =>
                  /\ mqCall'[id].pc = "QUEUE_FULL"
                  /\ mq' = mq
                  /\ Len(mq.queue) = maxSize]_vars
    /\ [](\A id \in MqIds : mqCall[id].pc = "QUEUE_FULL" =>
            \A i \in 1..Len(processed) : processed[i].id # id)

\* The enqueue call for this message was accepted.
Accepted(id) == mqCall[id].pc \in {"dequeue", "callback", "resolved", "failed"}

\* Some enqueue call's drain is running.
Draining == \E id \in MqIds : mqCall[id].pc \in {"dequeue", "callback"}

ProcessedIds == {processed[i].id : i \in 1..Len(processed)}

\* C26: with a callback that always resolves, no message is handed to the
\* callback twice and none that was not accepted; the flag is set while a
\* callback is outstanding; when no drain is running the queue is empty, the
\* flag is clear and every accepted message has been handed to the callback;
\* every drain ends and every accepted message is handed to the callback.
C26_DrainsToEmpty ==
    /\ [](/\ Cardinality(ProcessedIds) = Len(processed)
          /\ \A id \in ProcessedIds : Accepted(id)
          /\ (\E id \in MqIds : mqCall[id].pc = "callback") => mq.processing
          /\ ~Draining =>
                /\ mq.queue = <<>>
                /\ ~mq.processing
                /\ \A id \in MqIds : Accepted(id) => id \in ProcessedIds)
    /\ \A id \in MqIds : Accepted(id) ~> id \in ProcessedIds
    /\ Draining ~> ~Draining

\* The drain started by the first enqueue has ended after handing over three
\* messages, two of them enqueued while it ran.
C26_Witness ==
    /\ ~Draining
    /\ Len(processed) = 3
    /\ mqCall[1].pc = "resolved"
    /\ mqCall[2].pc = "resolved"
    /\ mqCall[3].pc = "resolved"
    /\ mqCall[4].pc = "none"
    /\ processed[1].id = 1

\* C27: when a callback fails the enqueue call driving the drain is rejected
\* with the error and the flag is cleared; an enqueue call made after a
\* failure, with no drain running and the flag clear, is accepted and starts
\* a drain.
C27_UsableAfterFailure ==
    /\ [][\A id \in MqIds :
            mqCall[id].pc = "callback" /\ mqCall'[id].pc = "failed" =>
                ~mq'.processing]_vars
    /\ [][\A id \in MqIds :
            /\ EnqueueCalled(id)
            /\ \E j \in MqIds : mqCall[j].pc = "failed"
            /\ ~Draining
            /\ ~mq.processing
            => mqCall'[id].pc = "dequeue"]_vars

\* C28: at most one invocation of the callback is outstanding.
C28_SingleFlight ==
    Cardinality({id \in MqIds : mqCall[id].pc = "callback"}) <= 1

\* ---------------------------------------------- claims on the BaseAgent
\* Steps of a processNextMessage call: it starts to process the message it
\* dequeued, it finds that it dequeued nothing, it completes.
StartsProcessing(c) == pnm[c].pc = "dequeue" /\ pnm'[c].pc = "working"
FoundNothing(c) == pnm[c].pc = "dequeue" /\ pnm'[c].pc = "resolved"
Succeeds(c) == pnm[c].pc = "settled" /\ pnm'[c].pc = "resolved"
Fails(c) == pnm[c].pc = "settled" /\ pnm'[c].pc = "rejected"

\* C29: a processNextMessage call that dequeued a message sets WORKING when
\* it starts to process it, IDLE when processMessage resolved in time and
\* ERROR when it rejected or the timeout fired first; in between the state
\* changes only by a step of another processNextMessage call, emergencyStop
\* or reset, so a call on its own shows WORKING and then IDLE or ERROR.
C29_StateSequence ==
    /\ [][\A c \in ProcessCalls :
            /\ StartsProcessing(c) =>
                  pnm[c].message # Undefined /\ agentState' = "WORKING"
            /\ pnm[c].pc = "settled" =>
                  /\ pnm[c].outcome = "resolved" => ~Fails(c)
                  /\ pnm[c].outcome \in {"rejected", "TIMEOUT"} => ~Succeeds(c)
            /\ Succeeds(c) => agentState' = "IDLE"
            /\ Fails(c) => agentState' = "ERROR"]_vars
    /\ [][agentState' # agentState =>
            \/ \E c \in ProcessCalls :
                  StartsProcessing(c) \/ FoundNothing(c) \/ Succeeds(c) \/ Fails(c)
            \/ agentOp' \in {"emergencyStop", "reset"}]_vars

\* A call went from WORKING to ERROR because its timeout fired.
C29_Witness ==
    \E c \in ProcessCalls :
        /\ pnm[c].pc = "rejected"
        /\ pnm[c].outcome = "TIMEOUT"
        /\ agentState = "ERROR"

\* C30: the agent goes from ERROR to IDLE only when a processNextMessage
\* call completes successfully or by emergencyStop or reset, and a
\* successful completion does set IDLE.
C30_ErrorLeftBySuccess ==
    [][/\ agentState = "ERROR" /\ agentState' = "IDLE" =>
            \/ \E c \in ProcessCalls : Succeeds(c)
            \/ agentOp' \in {"emergencyStop", "reset"}
       /\ \A c \in ProcessCalls : Succeeds(c) => agentState' = "IDLE"]_vars

\* C31: when the timeout timer of a processNextMessage call fires while its
\* processMessage is still running, the race settles as a timeout and the
\* processMessage call stays in flight; the call then rejects with an
\* AgentError of type TIMEOUT and sets the state ERROR; and when the
\* processMessage call settles afterwards, with either outcome, the agent's
\* state, the private queue with its processing flag and the outcome of
\* processNextMessage all stay as they are.
C31_TimeoutLeavesCallRunning ==
    [][\A c \in ProcessCalls :
          /\ (pnm[c].pc = "working" /\ pnm[c].timer /\ ~pnm'[c].timer)
                => /\ pnm'[c].pc = "settled"
                   /\ pnm'[c].outcome = "TIMEOUT"
                   /\ pnm'[c].inFlight
          /\ (pnm[c].pc = "settled" /\ pnm[c].outcome = "TIMEOUT"
                 /\ pnm'[c].pc # "settled")
                => /\ Fails(c)
                   /\ pnm'[c].errorType = AgentErrorType.TIMEOUT
                   /\ agentState' = "ERROR"
          /\ (pnm[c].pc # "working" /\ pnm[c].inFlight /\ ~pnm'[c].inFlight)
                => /\ agentState' = agentState
                   /\ mq' = mq
                   /\ pnm'[c].pc = pnm[c].pc
                   /\ pnm'[c].outcome = pnm[c].outcome
                   /\ pnm'[c].errorType = pnm[c].errorType]_vars

\* A call has failed with TIMEOUT and its processMessage has just settled
\* late, while another call holds the processing flag.
C31_Witness ==
    /\ agentOp = "processMessage"
    /\ mq.processing
    /\ \E c \in ProcessCalls :
          /\ pnm[c].pc = "rejected"
          /\ pnm[c].errorType = AgentErrorType.TIMEOUT
          /\ ~pnm[c].inFlight

\* Messages a processNextMessage call has taken out of the private queue.
DequeuedIds ==
    {pnm[c].message.id : c \in {b \in ProcessCalls : pnm[b].message # Undefined}}

\* C32: the step of emergencyStop, from any state, leaves the private queue
\* empty, its processing flag false and the agent's state IDLE; and a
\* message emergencyStop found in the queue is never again in the queue nor
\* taken by a processNextMessage call nor by the queue's own drain.
C32_EmergencyStopDiscards ==
    /\ [][agentOp' = "emergencyStop"
            => /\ mq'.queue = <<>>
               /\ ~mq'.processing
               /\ agentState' = "IDLE"]_vars
    /\ [](\A id \in discarded :
            /\ id \notin DequeuedIds
            /\ id \notin {mq.queue[i].id : i \in 1..Len(mq.queue)}
            /\ \A j \in MqIds :
                  mqCall[j].current # Undefined => mqCall[j].current.id # id)

\* emergencyStop has just discarded a message while a processNextMessage
\* call was processing another one.
C32_Witness ==
    /\ agentOp = "emergencyStop"
    /\ discarded # {}
    /\ \E c \in ProcessCalls : pnm[c].pc = "working"

\* Ids of the messages in the agent's private queue.
PrivateQueueIds(q) == {q.queue[i].id : i \in 1..Len(q.queue)}

\* C33: when enqueueMessage resumes after validation, a schema-valid message
\* is in the private queue and the call has succeeded, and a schema-invalid
\* one makes the call fail with a VALIDATION error and leaves the queue as
\* it was; a message leaves the private queue only by a processNextMessage
\* call (or by emergencyStop or reset clearing the queue).
C33_EnqueueAppends ==
    [][\A id \in MqIds :
          /\ (mqCall[id].pc = "validating" /\ mqCall'[id] # mqCall[id])
                => IF schemaValid(mqCall[id].message)
                   THEN /\ mqCall'[id].pc = "resolved"
                        /\ id \in PrivateQueueIds(mq')
                   ELSE /\ mqCall'[id].pc = "VALIDATION"
                        /\ mq' = mq
          /\ (id \in PrivateQueueIds(mq) /\ id \notin PrivateQueueIds(mq'))
                => agentOp' \in {"processNextMessage", "emergencyStop", "reset"}
          /\ mqCall[id].pc = "resolved" => mqCall'[id].pc = "resolved"]_vars

\* An attempt to deliver the message to its target fails, or succeeds, in
\* this step.
AttemptFails(id) == route[id].pc = "calling" /\ route'[id].pc \in {"backoff", "failed"}
AttemptSucceeds(id) == route[id].pc = "calling" /\ route'[id].pc = "resolved"

\* C34: when an attempt to deliver a message fails, the target agent's own
\* getState() is ERROR afterwards, and when an attempt succeeds it is IDLE
\* afterwards.
C34_TargetStateFollowsAttempts ==
    [][\A id \in Ids :
          /\ AttemptFails(id) => targetState'[route[id].message.targetAgent] = "ERROR"
          /\ AttemptSucceeds(id) => targetState'[route[id].message.targetAgent] = "IDLE"]_vars

\* The drain loop of call id requeues the message it holds in this step.
Requeues(id) == loopPc[id] = "dequeued" /\ loopPc'[id] = "requeued"

\* The position of message id x in a tier, 0 when it is not there.
PositionIn(tier, x) ==
    IF \E i \in 1..Len(tier) : tier[i].message.id = x
    THEN CHOOSE i \in 1..Len(tier) : tier[i].message.id = x
    ELSE 0

C37_QueueBounded == size(queues) <= maxQueueSize

\* The execute call c is rejected by checkState in this step.
RejectedOpen(c) == exec[c].pc = "none" /\ exec'[c].pc = "rejected"

\* C40: an execute call rejected because the circuit is OPEN leaves state,
\* failures, lastStateChange and lastFailureTime as they were, so the time
\* left until the circuit may leave OPEN is what it was before the call.
C40_RejectionChangesNothing ==
    [][\A c \in Calls : RejectedOpen(c) =>
          /\ breaker.state = "OPEN"
          /\ breaker' = breaker
          /\ sinceLastFailure' = sinceLastFailure
          /\ remainingTimeout(breaker') = remainingTimeout(breaker)]_vars

\* A call has been rejected part of the way through the cooldown.
C40_Witness ==
    /\ breaker.state = "OPEN"
    /\ breaker.sinceStateChange > 0
    /\ \E c \in Calls :
          /\ exec[c].pc = "rejected"
          /\ exec[c].remainingTimeout = remainingTimeout(breaker)
          /\ \A b \in Calls : b > c => exec[b].pc = "none"

\* The execute call c is made in HALF_OPEN once halfOpenTimeout has elapsed.
ExecutesInExpiredHalfOpen(c) ==
    /\ exec[c].pc = "none"
    /\ exec'[c].pc # "none"
    /\ breaker.state = "HALF_OPEN"
    /\ breaker.sinceStateChange >= halfOpenTimeout

\* The operation of call c, whose checkState closed the circuit, fails.
ClosingCallFails(c) ==
    /\ exec[c].movedTo = "CLOSED"
    /\ exec[c].pc = "operating"
    /\ exec'[c].pc = "threw"

C38_StateMatchesFailures ==
    /\ breaker.state = "OPEN" => breaker.failures >= failureThreshold
    /\ breaker.state = "CLOSED" => breaker.failures < failureThreshold

\* C39: when execute calls do not overlap, the breaker is HALF_OPEN only
\* while a call is in flight: with every call settled it is CLOSED or OPEN.
C39_NeverHalfOpenBetweenCalls ==
    (\A c \in Calls : ~InFlight(c)) => breaker.state \in {"CLOSED", "OPEN"}

\* A probe that failed in HALF_OPEN has re-opened the circuit, and one that
\* succeeded has closed it again.
C39_Witness ==
    /\ \A c \in Calls : ~InFlight(c)
    /\ \E c \in Calls : exec[c].movedTo = "HALF_OPEN" /\ exec[c].pc = "threw"
    /\ \E c \in Calls : exec[c].movedTo = "HALF_OPEN" /\ exec[c].pc = "returned"
    /\ breaker.state = "CLOSED"

====
